---- MODULE Spec2Model ----
(***************************************************************************)
(* Model of the message broker (agent/communication/broker.py), its        *)
(* lifecycle monitor (agent/communication/monitor.py), the message type    *)
(* (agent/communication/protocol.py) and the bounded tool-dispatch loop of *)
(* the orchestrating manager (agent/orchestrator/llm_orchestrator.py).     *)
(*                                                                         *)
(* Threads of the broker part: one caller thread per call of               *)
(* route_message / send_request, one worker thread per registered agent    *)
(* name, and the thread that registers agents and shuts the broker down.   *)
(* Every statement of the code that reads or writes shared broker state is *)
(* one step of its thread.                                                 *)
(***************************************************************************)
EXTENDS Integers, Sequences, FiniteSets, TLC

\* ---------------------------------------------------------------- bounds
NumCalls == 2        \* calls of route_message / send_request made in a run
MaxTimeout == 1      \* largest timeout a caller passes, in clock ticks
MaxChats == 2        \* calls of chat made in a run
MaxToolCalls == 2    \* most invocations the oracle requests in one response
NumRecorders == 2    \* threads that call record_event concurrently
MaxEvents == 2       \* record_event calls made by one thread
NumRegistrars == 2   \* threads that call register_agent concurrently
NumConstructors == 2 \* threads that call MessageBroker() concurrently
MaxInvocations == 5  \* most invocations the oracle requests in one chat when
                     \* it chooses among all the tools

\* ------------------------------------------------------------- constants
Names == {"planner", "rag"}          \* agent names that are ever used
Calls == 1..NumCalls
Ids == Calls                         \* message ids (uuid4 values)
Kinds == {"request", "notification"} \* MessageType values that are routed
Priorities == {1, 5}                 \* AgentMessage.priority (1=high, 5=low)
default_priority == 1                \* priority of a message built without one

NoMessage == 0                       \* "no message" / "no event object"
HandlerErrors == {"handler error"}   \* str(e) of what a handler raises
Handlers == {"h1", "h2"}             \* handler functions passed to register_agent
NoHandler == "none"                  \* the name is not a key of _agent_handlers

\* Worker threads: the name of a thread started for an agent name is the
\* agent name; a second thread started for the same name is its "_2".
SecondWorkers == {"planner_2", "rag_2"}
Workers == Names \cup SecondWorkers
\* Mutant of NameOf: every worker thread polls the mailbox of "planner".
NameOf_single(w) == "planner"

NameOf(w) == CASE w = "planner_2" -> "planner" [] w = "rag_2" -> "rag" [] OTHER -> w
SecondOf(n) == CASE n = "planner" -> "planner_2" [] OTHER -> "rag_2"
Recorders == 1..NumRecorders         \* threads that call record_event
EventStatuses == {"received", "timeout"}  \* MessageStatus values recorded
Constructors == 1..NumConstructors   \* threads that call MessageBroker()
Registrars == 1..NumRegistrars       \* threads that call register_agent
NoResponse == [message_type |-> "none"]   \* Python None as a response
NoPayload == [status |-> "none"]          \* no payload returned yet

HumanMessages == {"plan"}            \* what the user types
None == "None"                       \* Python None where a string is expected
Contents == {None, "", "text"}       \* content of an answer of the oracle
RequestContents == {None}            \* content of a response with tool calls
Arguments == {"valid", "malformed"}  \* tool_call.function.arguments: JSON or not
NoException == "none"
OracleErrors == {"RuntimeError"}     \* what chat_completion raises
ToolNames == {"message_planner", "get_agent_status", "coordinate_agents"}
NoReply == "no response"             \* send_request returned None to a tool
Replies == {"success", NoReply}      \* what send_request returns to a tool: a
                                     \* response (the status of its payload) or None
NoId == <<>>                         \* a turn without tool_call_id

VARIABLES
    \* MessageBroker fields
    agent_handlers,     \* name -> its handler, or NoHandler
    message_queues,     \* name -> sequence of queued message objects
    pending_responses,  \* id -> response message, or NoResponse when absent
    response_events,    \* id -> Event object, or NoMessage when absent
    event_flag,         \* Event object -> its flag
    message_history,    \* sequence of routed message objects
    worker_threads,     \* names for which a worker thread was started
    shutdown_event,     \* flag of _shutdown_event
    stats,              \* the four counters
    \* MessageMonitor.traces: id -> [present, events]
    traces,
    \* caller threads
    cpc, msg, mode, timeout, waited, waitOn, response, result,
    \* worker threads
    wpc, wmsg, wpayload,
    whandler,     \* worker -> the handler it fetched (line 119), or NoHandler
    werror,       \* worker -> str(e) of the exception it caught at line 149
    \* threads inside register_agent
    rpc, rname, rhandler,
    registrations, \* name -> the handlers stored for it, in the order stored
    regsAtGet,    \* call -> how many handlers had been stored for its
                  \* recipient when its message was dequeued
    invokedBy,    \* call -> the handler invoked on its message, or NoHandler
    \* threads inside MessageMonitor.record_event
    tpc, tid, tevent,
    tcalls,       \* thread -> how many record_event calls it has made
    recorded,     \* id -> the events of the record_event calls that returned
    routed,       \* the message objects in the order route_message appended them
    \* history of the run, read only by the properties
    enqueued,     \* name -> message objects in the order route_message put them
    invoked,      \* name -> message objects in the order the handler got them
    handlerRet,   \* call -> payload its handler returned, or NoPayload
    deadline,     \* call -> its wait ended by the timeout
    signalled,    \* call -> "no", or when the worker passed line 139-140 for
                  \* its message: "in_time" (before the deadline) or "late"
    lateHandler,  \* call -> its handler was still running at the deadline
    after,        \* call -> the calls that had returned when it was made
    \* the thread that calls shutdown
    spc,
    \* LLMOrchestratingManager fields
    conversation_history,  \* the canonical history: sequence of turns
    total_requests,
    \* the thread that calls chat, and the locals of chat and of
    \* _get_llm_response_with_tools
    mpc, tool_messages, made_tool_calls, rounds,
    response_content,  \* response.content of the last oracle response
    tool_calls,        \* response.tool_calls not yet processed in this round
    tool_results, tool_calls_list,
    answer,            \* the value chat returned, or None
    \* history of the chat call, read only by the properties
    historyBefore,     \* length of the canonical history when chat was called
    enabledCalls,      \* oracle calls made with the tools enabled
    finalCalls,        \* oracle calls made without tools
    allRequested,      \* every oracle call so far requested an invocation
    failed,            \* the call went through the except branch of chat
    requestedIds,      \* ids of the tool calls the oracle requested in this call
    noReply,           \* ids of the tool calls whose send_request returned None
    obtained,          \* [id, output]: what the tool of each call returned
    \* MessageBroker class attributes and the threads that call MessageBroker()
    instance,          \* how many objects __new__ created; 0 is _instance = None
    initialized,       \* the _initialized attribute of the instance
    kpc,               \* thread -> where it is inside MessageBroker()
    exc                \* the exception raised inside the try of chat, or NoException

brokerVars == <<agent_handlers, message_queues, pending_responses,
                response_events, event_flag, message_history, worker_threads,
                shutdown_event, stats, traces>>
callerVars == <<cpc, msg, mode, timeout, waited, waitOn, response, result>>
workerVars == <<wpc, wmsg, wpayload>>
regVars == <<rpc, rname, rhandler>>
monVars == <<tpc, tid, tevent, tcalls, recorded>>
histVars == <<routed>>
ctorVars == <<instance, initialized, kpc>>
handlerVars == <<whandler, werror, registrations, regsAtGet, invokedBy>>
ghostVars == <<enqueued, invoked, handlerRet, deadline, signalled, lateHandler,
               after>>
brokerSideVars == <<brokerVars, callerVars, workerVars, ghostVars, spc, regVars,
                    handlerVars>>
chatVars == <<conversation_history, total_requests, mpc, tool_messages,
              made_tool_calls, rounds, response_content, tool_calls, tool_results,
              tool_calls_list, answer, historyBefore, enabledCalls, finalCalls,
              allRequested, failed, requestedIds, noReply, obtained,
              exc>>
vars == <<brokerVars, callerVars, workerVars, ghostVars, spc, regVars,
          handlerVars, chatVars, ctorVars, monVars, histVars>>

\* ------------------------------------------------------------ protocol.py
\* AgentMessage(sender=..., recipient=..., message_type=...): message_id is
\* drawn by the default factory unless the caller passes one.
AgentMessage(id, sender, recipient, kind, payload, prio) ==
    [message_id |-> id, correlation_id |-> NoMessage, sender |-> sender,
     recipient |-> recipient, message_type |-> kind, payload |-> payload,
     priority |-> prio, requires_response |-> FALSE]

\* What a caller may pass for a field declared with Field(...): nothing, or
\* a value of the type of the field.
Omitted == "omitted"
SenderArgs == {Omitted, "", "manager"}
RecipientArgs == {Omitted, "", "planner"}
KindArgs == {Omitted, "request"}

\* The validation of AgentMessage (lines 32, 33 and 36): a field declared
\* with Field(...) is required; any str is a sender or a recipient.
Validates(sender, recipient, kind) ==
    sender # Omitted /\ recipient # Omitted /\ kind # Omitted

\* The id the default factory draws for the response built from the k-th
\* message object: uuid4 values differ from one another.
ResponseId(k) == NumCalls + k

\* Mutant of create_response: sender and recipient are copied, not swapped.
create_response_unswapped(m, k, payload) ==
    [AgentMessage(ResponseId(k), m.sender, m.recipient, "response", payload,
                  default_priority)
        EXCEPT !.correlation_id = m.message_id] @@ [request |-> k]

\* AgentMessage.create_response: a new message; `request` remembers the
\* message object the response was built from (two objects may carry one id).
create_response(m, k, payload) ==
    [AgentMessage(ResponseId(k), m.recipient, m.sender, "response", payload,
                  default_priority)
        EXCEPT !.correlation_id = m.message_id] @@ [request |-> k]

\* -------------------------------------------------------------- monitor.py
NoTrace == [present |-> FALSE, events |-> <<>>]

\* MessageMonitor.start_trace: a new trace replaces any trace of the id.
start_trace(tr, id) == [tr EXCEPT ![id] = [present |-> TRUE, events |-> <<>>]]

\* MessageMonitor.record_event: a missing trace is created, then the event is
\* appended with the error text it was given.
MessageEvent(status, error) == [status |-> status, error |-> error]

record_event_error(tr, id, status, error) ==
    [tr EXCEPT ![id] = [present |-> TRUE,
                        events |-> Append(tr[id].events, MessageEvent(status, error))]]

\* The same without the error argument, which defaults to None.
record_event(tr, id, status) == record_event_error(tr, id, status, None)

\* MessageTrace.get_status
get_status(t) ==
    IF t.events = <<>> THEN "created" ELSE t.events[Len(t.events)].status

\* MessageMonitor.get_recent_failures lines 157-160: the statuses it selects.
FailureStatuses == {"failed", "timeout", "no_handler"}

\* MessageMonitor.get_recent_failures with a limit of at least the number of
\* traces: the ids of the traces it returns (their order, by creation time,
\* is left out).
get_recent_failures(tr) ==
    {i \in DOMAIN tr : tr[i].present /\ get_status(tr[i]) \in FailureStatuses}

\* MessageMonitor.record_event called by worker and caller threads at the
\* same time, statement by statement: the monitor takes no lock.
CallRecordEvent(t, id, status) ==
    /\ tpc[t] = "idle"
    /\ tcalls[t] < MaxEvents
    /\ tcalls' = [tcalls EXCEPT ![t] = @ + 1]
    /\ tid' = [tid EXCEPT ![t] = id]
    /\ tevent' = [tevent EXCEPT ![t] = MessageEvent(status, None)]
    /\ tpc' = [tpc EXCEPT ![t] = "test"]
    /\ UNCHANGED <<brokerSideVars, recorded, chatVars, ctorVars, histVars>>

\* record_event line 121: is there a trace for the id?
RecordTest(t) ==
    /\ tpc[t] = "test"
    /\ tpc' = [tpc EXCEPT ![t] = IF traces[tid[t]].present THEN "append"
                                 ELSE "create"]
    /\ UNCHANGED <<brokerSideVars, tid, tevent, tcalls, recorded, chatVars, ctorVars, histVars>>

\* record_event lines 123-130: a trace without events is stored under the
\* id, in place of what is there by now.
RecordCreate(t) ==
    /\ tpc[t] = "create"
    /\ traces' = [traces EXCEPT ![tid[t]] = [present |-> TRUE, events |-> <<>>]]
    /\ tpc' = [tpc EXCEPT ![t] = "append"]
    /\ UNCHANGED <<agent_handlers, message_queues, pending_responses,
                   response_events, event_flag, message_history, worker_threads,
                   shutdown_event, stats>>
    /\ UNCHANGED <<callerVars, workerVars, ghostVars, spc, regVars, handlerVars>>
    /\ UNCHANGED <<tid, tevent, tcalls, recorded, chatVars, ctorVars, histVars>>

\* record_event lines 132-133: the trace now stored under the id gets the
\* event, and the call returns. (A trace replaced between the two lines
\* would lose the event as well; that interleaving is not added.)
RecordAppend(t) ==
    /\ tpc[t] = "append"
    /\ traces' = [traces EXCEPT ![tid[t]].events = Append(@, tevent[t])]
    /\ recorded' = [recorded EXCEPT ![tid[t]] = Append(@, tevent[t])]
    /\ tpc' = [tpc EXCEPT ![t] = "idle"]
    /\ UNCHANGED <<agent_handlers, message_queues, pending_responses,
                   response_events, event_flag, message_history, worker_threads,
                   shutdown_event, stats>>
    /\ UNCHANGED <<callerVars, workerVars, ghostVars, spc, regVars, handlerVars>>
    /\ UNCHANGED <<tid, tevent, tcalls, chatVars, ctorVars, histVars>>

RecordStep(t) == RecordTest(t) \/ RecordCreate(t) \/ RecordAppend(t)

\* ------------------------------------------------------------------- Init
\* The fields of the broker and of the threads, as __init__ lines 44-67 and
\* the start of each thread leave them.
InitFields ==
    /\ agent_handlers = [n \in Names |-> NoHandler]
    /\ message_queues = [n \in Names |-> <<>>]
    /\ pending_responses = [i \in Ids |-> NoResponse]
    /\ response_events = [i \in Ids |-> NoMessage]
    /\ event_flag = [k \in Calls |-> FALSE]
    /\ worker_threads = {}
    /\ shutdown_event = FALSE
    /\ stats = [messages_sent |-> 0, messages_delivered |-> 0,
                messages_failed |-> 0, responses_matched |-> 0]
    /\ traces = [i \in Ids |-> NoTrace]
    /\ cpc = [k \in Calls |-> "idle"]
    /\ msg = [k \in Calls |-> AgentMessage(k, "manager", "planner", "request", k, 1)]
    /\ mode = [k \in Calls |-> "send_request"]
    /\ timeout = [k \in Calls |-> 1]
    /\ waited = [k \in Calls |-> 0]
    /\ waitOn = [k \in Calls |-> NoMessage]
    /\ response = [k \in Calls |-> NoResponse]
    /\ result = [k \in Calls |-> NoResponse]
    /\ wpc = [w \in Workers |-> "none"]
    /\ wmsg = [w \in Workers |-> NoMessage]
    /\ wpayload = [w \in Workers |-> NoPayload]
    /\ whandler = [w \in Workers |-> NoHandler]
    /\ werror = [w \in Workers |-> None]
    /\ tpc = [t \in Recorders |-> "idle"]
    /\ tid = [t \in Recorders |-> 1]
    /\ tevent = [t \in Recorders |-> MessageEvent("created", None)]
    /\ tcalls = [t \in Recorders |-> 0]
    /\ recorded = [i \in Ids |-> <<>>]
    /\ rpc = [r \in Registrars |-> "idle"]
    /\ rname = [r \in Registrars |-> "planner"]
    /\ rhandler = [r \in Registrars |-> NoHandler]
    /\ registrations = [n \in Names |-> <<>>]
    /\ regsAtGet = [k \in Calls |-> 0]
    /\ invokedBy = [k \in Calls |-> NoHandler]
    /\ enqueued = [n \in Names |-> <<>>]
    /\ invoked = [n \in Names |-> <<>>]
    /\ handlerRet = [k \in Calls |-> NoPayload]
    /\ deadline = [k \in Calls |-> FALSE]
    /\ signalled = [k \in Calls |-> "no"]
    /\ lateHandler = [k \in Calls |-> FALSE]
    /\ after = [k \in Calls |-> {}]
    /\ spc = "idle"
    /\ total_requests = 0
    /\ mpc = "idle"
    /\ tool_messages = <<>>
    /\ made_tool_calls = FALSE
    /\ rounds = 0
    /\ response_content = None
    /\ tool_calls = <<>>
    /\ tool_results = <<>>
    /\ tool_calls_list = <<>>
    /\ answer = None
    /\ historyBefore = 0
    /\ enabledCalls = 0
    /\ finalCalls = 0
    /\ allRequested = TRUE
    /\ failed = FALSE
    /\ exc = NoException
    /\ requestedIds = {}
    /\ noReply = {}
    /\ obtained = {}

\* The broker exists: one construction has returned (lines 35-36 and 69) and
\* no thread is inside a construction.
BrokerBuilt ==
    /\ instance = 1
    /\ initialized = TRUE
    /\ kpc = [c \in Constructors |-> "idle"]

InitRest == InitFields /\ BrokerBuilt

\* LLMOrchestratingManager.__init__: the manager starts without a history.
InitOther == InitRest /\ conversation_history = <<>>

\* MessageBroker.__init__ line 56
max_history_size == 1000

\* The broker after construction (line 55: an empty history).
Init == InitOther /\ message_history = <<>> /\ routed = <<>>

\* The n messages a broker routed before: message objects older than every
\* call, in the order they were routed.
Older(n) == [i \in 1..n |-> i - n - 1]

\* A broker that has routed as many messages as its history holds, or one
\* less.
InitHistory ==
    /\ InitOther
    /\ \E n \in {max_history_size - 1, max_history_size} :
           message_history = Older(n) /\ routed = Older(n)

\* ------------------------------------------------ broker.py: construction
\* The process before the first MessageBroker(): no instance, and the
\* attribute _initialized does not exist (getattr gives False).
InitSingleton ==
    /\ InitFields
    /\ instance = 0
    /\ initialized = FALSE
    /\ kpc = [c \in Constructors |-> "idle"]
    /\ conversation_history = <<>>
    /\ message_history = <<>>
    /\ routed = <<>>

ctorOther == <<callerVars, workerVars, ghostVars, spc, regVars, handlerVars,
               chatVars, monVars, histVars>>

\* __new__ line 33: the test outside the lock.
NewTest(c) ==
    /\ kpc[c] = "idle"
    /\ kpc' = [kpc EXCEPT ![c] = IF instance = 0 THEN "new_lock" ELSE "init"]
    /\ UNCHANGED <<instance, initialized, brokerVars, ctorOther>>

\* __new__ lines 34-35: the lock is taken, the test repeated and the
\* object created; the thread keeps the lock until line 36.
NewCreate(c) ==
    /\ kpc[c] = "new_lock"
    /\ \A d \in Constructors : kpc[d] # "new_flag"
    /\ IF instance = 0
       THEN instance' = instance + 1 /\ kpc' = [kpc EXCEPT ![c] = "new_flag"]
       ELSE UNCHANGED instance /\ kpc' = [kpc EXCEPT ![c] = "init"]
    /\ UNCHANGED <<initialized, brokerVars, ctorOther>>

\* __new__ line 36, and the lock released.
NewFlag(c) ==
    /\ kpc[c] = "new_flag"
    /\ initialized' = FALSE
    /\ kpc' = [kpc EXCEPT ![c] = "init"]
    /\ UNCHANGED <<instance, brokerVars, ctorOther>>

\* __init__ lines 41-42
InitTest(c) ==
    /\ kpc[c] = "init"
    /\ kpc' = [kpc EXCEPT ![c] = IF initialized THEN "built" ELSE "init_fields"]
    /\ UNCHANGED <<instance, initialized, brokerVars, ctorOther>>

\* __init__ lines 44-67: every field is assigned a new empty object. The
\* monitor and the threads already started are not fields of the broker.
InitAssign(c) ==
    /\ kpc[c] = "init_fields"
    /\ agent_handlers' = [n \in Names |-> NoHandler]
    /\ message_queues' = [n \in Names |-> <<>>]
    /\ pending_responses' = [i \in Ids |-> NoResponse]
    /\ response_events' = [i \in Ids |-> NoMessage]
    /\ message_history' = <<>>
    /\ worker_threads' = {}
    /\ shutdown_event' = FALSE
    /\ stats' = [messages_sent |-> 0, messages_delivered |-> 0,
                 messages_failed |-> 0, responses_matched |-> 0]
    /\ kpc' = [kpc EXCEPT ![c] = "init_flag"]
    /\ UNCHANGED <<event_flag, traces, instance, initialized, ctorOther>>

\* __init__ line 69
InitFlag(c) ==
    /\ kpc[c] = "init_flag"
    /\ initialized' = TRUE
    /\ kpc' = [kpc EXCEPT ![c] = "built"]
    /\ UNCHANGED <<instance, brokerVars, ctorOther>>

ConstructStep(c) ==
    \/ NewTest(c) \/ NewCreate(c) \/ NewFlag(c)
    \/ InitTest(c) \/ InitAssign(c) \/ InitFlag(c)

\* MessageBroker() has returned to some thread, which can use the broker.
SomeBuilt == \E c \in Constructors : kpc[c] = "built"

\* ------------------------------------------------- broker.py: registration
HasHandler(n) == IF n \in Names THEN agent_handlers[n] # NoHandler ELSE FALSE

\* MessageBroker.register_agent called by the one thread that builds the
\* agents: the handler is stored; a worker thread is started only if the
\* name has none recorded. No other thread reads _worker_threads, and a
\* message routed between lines 81 and 90 waits in the mailbox, so the call
\* is one step.
register(n, h) ==
    /\ agent_handlers' = [agent_handlers EXCEPT ![n] = h]
    /\ worker_threads' = worker_threads \cup {n}
    /\ wpc' = IF n \in worker_threads THEN wpc ELSE [wpc EXCEPT ![n] = "check"]
    /\ UNCHANGED <<message_queues, pending_responses, response_events, event_flag,
                   message_history, shutdown_event, stats, traces>>
    /\ registrations' = IF agent_handlers[n] = h THEN registrations
                        ELSE [registrations EXCEPT ![n] = Append(@, h)]
    /\ UNCHANGED <<callerVars, wmsg, wpayload, ghostVars>>
    /\ UNCHANGED <<spc, regVars, whandler, regsAtGet, invokedBy, werror,
                   chatVars, ctorVars, monVars, histVars>>

\* Each agent registers the handler of its own.
register_agent(n) == register(n, "h1")

\* The same call made by threads that run concurrently, statement by
\* statement: register_agent takes no lock.
CallRegister(r, n, h) ==
    /\ rpc[r] = "idle"
    /\ rpc' = [rpc EXCEPT ![r] = "store"]
    /\ rname' = [rname EXCEPT ![r] = n]
    /\ rhandler' = [rhandler EXCEPT ![r] = h]
    /\ UNCHANGED <<brokerVars, callerVars, workerVars, ghostVars>>
    /\ UNCHANGED <<spc, handlerVars, chatVars, ctorVars, monVars, histVars>>

\* register_agent line 81
RegStore(r) ==
    /\ rpc[r] = "store"
    /\ agent_handlers' = [agent_handlers EXCEPT ![rname[r]] = rhandler[r]]
    /\ registrations' = [registrations EXCEPT ![rname[r]] = Append(@, rhandler[r])]
    /\ rpc' = [rpc EXCEPT ![r] = "check"]
    /\ UNCHANGED <<message_queues, pending_responses, response_events, event_flag,
                   message_history, worker_threads, shutdown_event, stats, traces>>
    /\ UNCHANGED <<callerVars, workerVars, ghostVars>>
    /\ UNCHANGED <<spc, rname, rhandler, whandler, regsAtGet, invokedBy,
                   werror, chatVars, ctorVars, monVars, histVars>>

\* register_agent line 83
RegCheck(r) ==
    /\ rpc[r] = "check"
    /\ rpc' = [rpc EXCEPT ![r] = IF rname[r] \in worker_threads THEN "done"
                                 ELSE "start"]
    /\ UNCHANGED <<brokerVars, callerVars, workerVars, ghostVars>>
    /\ UNCHANGED <<spc, rname, rhandler, handlerVars, chatVars, ctorVars, monVars, histVars>>

\* The thread object register_agent builds at lines 84-89: the first for
\* the name, or a second one when one is already running.
NewThread(n) == IF wpc[n] = "none" THEN n ELSE SecondOf(n)

\* register_agent lines 84-90: the thread is built and started.
RegStart(r) ==
    /\ rpc[r] = "start"
    /\ wpc[NewThread(rname[r])] = "none"
    /\ wpc' = [wpc EXCEPT ![NewThread(rname[r])] = "check"]
    /\ rpc' = [rpc EXCEPT ![r] = "record"]
    /\ UNCHANGED <<brokerVars, callerVars, wmsg, wpayload, ghostVars>>
    /\ UNCHANGED <<spc, rname, rhandler, handlerVars, chatVars, ctorVars, monVars, histVars>>

\* register_agent line 91
RegRecord(r) ==
    /\ rpc[r] = "record"
    /\ worker_threads' = worker_threads \cup {rname[r]}
    /\ rpc' = [rpc EXCEPT ![r] = "done"]
    /\ UNCHANGED <<agent_handlers, message_queues, pending_responses,
                   response_events, event_flag, message_history, shutdown_event,
                   stats, traces>>
    /\ UNCHANGED <<callerVars, workerVars, ghostVars>>
    /\ UNCHANGED <<spc, rname, rhandler, handlerVars, chatVars, ctorVars, monVars, histVars>>

RegisterStep(r) == RegStore(r) \/ RegCheck(r) \/ RegStart(r) \/ RegRecord(r)

\* ------------------------------------------------ broker.py: caller threads
\* Calls are numbered in the order in which they are made.
InOrder(k) == IF k = 1 THEN TRUE ELSE cpc[k - 1] # "idle"

\* Agent names are interchangeable: the first message is the one addressed
\* to "planner".
FirstName(k, r) == IF k = 1 THEN r = "planner" ELSE TRUE

AfterRoute(k) == IF mode[k] = "send_request" THEN "wait_enter" ELSE "done"

\* A caller builds a message from the arguments it has and, when the
\* constructor returns one, calls route_message with it; the constructor
\* raises ValidationError otherwise.
ConstructAndRoute(k, sender, recipient, kind) ==
    /\ cpc[k] = "idle"
    /\ InOrder(k)
    /\ IF Validates(sender, recipient, kind)
       THEN /\ msg' = [msg EXCEPT ![k] = AgentMessage(k, sender, recipient, kind,
                                                     k, default_priority)]
            /\ mode' = [mode EXCEPT ![k] = "route_message"]
            /\ cpc' = [cpc EXCEPT ![k] = "route_trace"]
       ELSE /\ cpc' = [cpc EXCEPT ![k] = "raised"]
            /\ UNCHANGED <<msg, mode>>
    /\ UNCHANGED <<brokerVars, timeout, waited, waitOn, response, result,
                   workerVars, ghostVars>>
    /\ UNCHANGED <<spc, regVars, handlerVars, chatVars, ctorVars, monVars, histVars>>

\* Mutant of RegisterEvent: no Event is stored before the message is routed.
RegisterEvent_missing(k, id) == response_events

\* A caller builds a message (fresh id) and calls send_request: the Event for
\* the id is stored before the message is routed (line 220).
RegisterEvent(k, id) == [response_events EXCEPT ![id] = k]

SendRequestFrom(sender, k, id, r, t, p) ==
    /\ cpc[k] = "idle"
    /\ InOrder(k)
    /\ FirstName(k, r)
    /\ msg' = [msg EXCEPT ![k] = AgentMessage(id, sender, r, "request", k, p)]
    /\ mode' = [mode EXCEPT ![k] = "send_request"]
    /\ timeout' = [timeout EXCEPT ![k] = t]
    /\ response_events' = RegisterEvent(k, id)
    /\ event_flag' = [event_flag EXCEPT ![k] = FALSE]
    /\ cpc' = [cpc EXCEPT ![k] = "route_trace"]
    /\ UNCHANGED <<agent_handlers, message_queues, pending_responses,
                   message_history, worker_threads, shutdown_event, stats, traces>>
    /\ after' = [after EXCEPT ![k] = {j \in Calls : cpc[j] = "done"}]
    /\ UNCHANGED <<waited, waitOn, response, result, workerVars, enqueued,
                   invoked, handlerRet, deadline, signalled, lateHandler>>
    /\ UNCHANGED <<spc, regVars, handlerVars, chatVars, ctorVars, monVars, histVars>>

\* The manager's thread calls send_request (llm_orchestrator.py tools).
CallSendRequest(k, id, r, t, p) == SendRequestFrom("manager", k, id, r, t, p)

\* A caller builds a message (fresh id) and calls route_message alone
\* (BaseAgent.communicate_with_agent).
CallRouteMessage(k, id, r, kd, p) ==
    /\ cpc[k] = "idle"
    /\ InOrder(k)
    /\ FirstName(k, r)
    /\ msg' = [msg EXCEPT ![k] = AgentMessage(id, "manager", r, kd, k, p)]
    /\ mode' = [mode EXCEPT ![k] = "route_message"]
    /\ cpc' = [cpc EXCEPT ![k] = "route_trace"]
    /\ UNCHANGED <<brokerVars, timeout, waited, waitOn, response, result,
                   workerVars, ghostVars>>
    /\ UNCHANGED <<spc, regVars, handlerVars, chatVars, ctorVars, monVars, histVars>>

\* route_message lines 176-182
RouteStartTrace(k) ==
    /\ cpc[k] = "route_trace"
    /\ traces' = start_trace(traces, msg[k].message_id)
    /\ cpc' = [cpc EXCEPT ![k] = "route_history"]
    /\ UNCHANGED <<agent_handlers, message_queues, pending_responses,
                   response_events, event_flag, message_history, worker_threads,
                   shutdown_event, stats>>
    /\ UNCHANGED <<msg, mode, timeout, waited, waitOn, response, result,
                   workerVars, ghostVars>>
    /\ UNCHANGED <<spc, regVars, handlerVars, chatVars, ctorVars, monVars, histVars>>

\* Mutant of HistoryAppend: the message is not kept.
HistoryAppend_dropped(h, k) == h

\* Mutant of HistoryTrim: the newest message is evicted (pop() for pop(0)).
HistoryTrim_newest(h) ==
    IF Len(h) > max_history_size THEN SubSeq(h, 1, Len(h) - 1) ELSE h

\* route_message lines 186-187
HistoryTrim(h) == IF Len(h) > max_history_size THEN Tail(h) ELSE h

\* route_message lines 185-187
HistoryAppend(h, k) == HistoryTrim(Append(h, k))

RouteHistory(k) ==
    /\ cpc[k] = "route_history"
    /\ message_history' = HistoryAppend(message_history, k)
    /\ cpc' = [cpc EXCEPT ![k] = "route_check"]
    /\ UNCHANGED <<agent_handlers, message_queues, pending_responses,
                   response_events, event_flag, worker_threads, shutdown_event,
                   stats, traces>>
    /\ routed' = Append(routed, k)
    /\ UNCHANGED <<msg, mode, timeout, waited, waitOn, response, result,
                   workerVars, ghostVars>>
    /\ UNCHANGED <<spc, regVars, handlerVars, chatVars, ctorVars, monVars>>

\* The same lines executed by threads that call route_message at the same
\* time. Line 185: the message is appended.
RouteHistoryAppend(k) ==
    /\ cpc[k] = "route_history"
    /\ message_history' = Append(message_history, k)
    /\ routed' = Append(routed, k)
    /\ cpc' = [cpc EXCEPT ![k] = "route_trim"]
    /\ UNCHANGED <<agent_handlers, message_queues, pending_responses,
                   response_events, event_flag, worker_threads, shutdown_event,
                   stats, traces>>
    /\ UNCHANGED <<msg, mode, timeout, waited, waitOn, response, result,
                   workerVars, ghostVars>>
    /\ UNCHANGED <<spc, regVars, handlerVars, chatVars, ctorVars, monVars>>

\* Lines 186-187: the length is tested and the oldest message removed.
RouteHistoryTrim(k) ==
    /\ cpc[k] = "route_trim"
    /\ message_history' = HistoryTrim(message_history)
    /\ cpc' = [cpc EXCEPT ![k] = "route_check"]
    /\ UNCHANGED <<agent_handlers, message_queues, pending_responses,
                   response_events, event_flag, worker_threads, shutdown_event,
                   stats, traces>>
    /\ UNCHANGED <<msg, mode, timeout, waited, waitOn, response, result,
                   workerVars, ghostVars>>
    /\ UNCHANGED <<spc, regVars, handlerVars, chatVars, ctorVars, monVars, histVars>>

\* route_message line 190
RouteCheck(k) ==
    /\ cpc[k] = "route_check"
    /\ cpc' = [cpc EXCEPT ![k] = IF HasHandler(msg[k].recipient)
                                 THEN "route_put" ELSE "route_failed_stat"]
    /\ UNCHANGED <<brokerVars, msg, mode, timeout, waited, waitOn, response,
                   result, workerVars, ghostVars>>
    /\ UNCHANGED <<spc, regVars, handlerVars, chatVars, ctorVars, monVars, histVars>>

\* Mutant of QueuePut: a priority queue, high priority (1) first.
QueuePut_priority(q, k) ==
    LET n == Cardinality({i \in 1..Len(q) : msg[q[i]].priority <= msg[k].priority})
    IN SubSeq(q, 1, n) \o <<k>> \o SubSeq(q, n + 1, Len(q))

\* queue.Queue.put: the message goes to the tail, whatever its priority.
QueuePut(q, k) == Append(q, k)

\* route_message line 191
RoutePut(k) ==
    /\ cpc[k] = "route_put"
    /\ message_queues' = [message_queues EXCEPT ![msg[k].recipient] = QueuePut(@, k)]
    /\ enqueued' = [enqueued EXCEPT ![msg[k].recipient] = Append(@, k)]
    /\ cpc' = [cpc EXCEPT ![k] = "route_sent_stat"]
    /\ UNCHANGED <<agent_handlers, pending_responses, response_events, event_flag,
                   message_history, worker_threads, shutdown_event, stats, traces>>
    /\ UNCHANGED <<msg, mode, timeout, waited, waitOn, response, result,
                   workerVars, invoked, handlerRet, deadline, signalled,
                   lateHandler, after>>
    /\ UNCHANGED <<spc, regVars, handlerVars, chatVars, ctorVars, monVars, histVars>>

\* route_message line 192
RouteSentStat(k) ==
    /\ cpc[k] = "route_sent_stat"
    /\ stats' = [stats EXCEPT !.messages_sent = @ + 1]
    /\ cpc' = [cpc EXCEPT ![k] = "route_sent_event"]
    /\ UNCHANGED <<agent_handlers, message_queues, pending_responses,
                   response_events, event_flag, message_history, worker_threads,
                   shutdown_event, traces>>
    /\ UNCHANGED <<msg, mode, timeout, waited, waitOn, response, result,
                   workerVars, ghostVars>>
    /\ UNCHANGED <<spc, regVars, handlerVars, chatVars, ctorVars, monVars, histVars>>

\* route_message lines 193-197
RouteSentEvent(k) ==
    /\ cpc[k] = "route_sent_event"
    /\ traces' = record_event(traces, msg[k].message_id, "sent")
    /\ cpc' = [cpc EXCEPT ![k] = AfterRoute(k)]
    /\ UNCHANGED <<agent_handlers, message_queues, pending_responses,
                   response_events, event_flag, message_history, worker_threads,
                   shutdown_event, stats>>
    /\ UNCHANGED <<msg, mode, timeout, waited, waitOn, response, result,
                   workerVars, ghostVars>>
    /\ UNCHANGED <<spc, regVars, handlerVars, chatVars, ctorVars, monVars, histVars>>

\* route_message line 200
RouteFailedStat(k) ==
    /\ cpc[k] = "route_failed_stat"
    /\ stats' = [stats EXCEPT !.messages_failed = @ + 1]
    /\ cpc' = [cpc EXCEPT ![k] = "route_no_handler_event"]
    /\ UNCHANGED <<agent_handlers, message_queues, pending_responses,
                   response_events, event_flag, message_history, worker_threads,
                   shutdown_event, traces>>
    /\ UNCHANGED <<msg, mode, timeout, waited, waitOn, response, result,
                   workerVars, ghostVars>>
    /\ UNCHANGED <<spc, regVars, handlerVars, chatVars, ctorVars, monVars, histVars>>

\* route_message lines 201-206
RouteNoHandlerEvent(k) ==
    /\ cpc[k] = "route_no_handler_event"
    /\ traces' = record_event_error(traces, msg[k].message_id, "no_handler",
                                    "Agent not registered")
    /\ cpc' = [cpc EXCEPT ![k] = AfterRoute(k)]
    /\ UNCHANGED <<agent_handlers, message_queues, pending_responses,
                   response_events, event_flag, message_history, worker_threads,
                   shutdown_event, stats>>
    /\ UNCHANGED <<msg, mode, timeout, waited, waitOn, response, result,
                   workerVars, ghostVars>>
    /\ UNCHANGED <<spc, regVars, handlerVars, chatVars, ctorVars, monVars, histVars>>

\* send_request line 226: the Event stored under the id is looked up (KeyError
\* when it is gone) and the caller starts to wait on that object.
WaitEnter(k) ==
    /\ cpc[k] = "wait_enter"
    /\ IF response_events[msg[k].message_id] = NoMessage
       THEN cpc' = [cpc EXCEPT ![k] = "raised"] /\ UNCHANGED waitOn
       ELSE /\ cpc' = [cpc EXCEPT ![k] = "wait"]
            /\ waitOn' = [waitOn EXCEPT ![k] = response_events[msg[k].message_id]]
    /\ UNCHANGED <<brokerVars, msg, mode, timeout, waited, response, result,
                   workerVars, ghostVars>>
    /\ UNCHANGED <<spc, regVars, handlerVars, chatVars, ctorVars, monVars, histVars>>

\* Event.wait(timeout) while the flag is clear: time passes.
Tick(k) ==
    /\ cpc[k] = "wait"
    /\ ~event_flag[waitOn[k]]
    /\ waited[k] < timeout[k]
    /\ waited' = [waited EXCEPT ![k] = @ + 1]
    /\ UNCHANGED <<brokerVars, cpc, msg, mode, timeout, waitOn, response, result,
                   workerVars, ghostVars>>
    /\ UNCHANGED <<spc, regVars, handlerVars, chatVars, ctorVars, monVars, histVars>>

\* Event.wait returns True: the flag of the awaited object is set.
WaitReturnsTrue(k) == event_flag[waitOn[k]]

WaitSignalled(k) ==
    /\ cpc[k] = "wait"
    /\ WaitReturnsTrue(k)
    /\ cpc' = [cpc EXCEPT ![k] = "pop"]
    /\ waited' = [waited EXCEPT ![k] = 0]
    /\ waitOn' = [waitOn EXCEPT ![k] = NoMessage]
    /\ UNCHANGED <<brokerVars, msg, mode, timeout, response, result, workerVars,
                   ghostVars>>
    /\ UNCHANGED <<spc, regVars, handlerVars, chatVars, ctorVars, monVars, histVars>>

\* Mutant of WaitTimeout: a wait without a timeout.
WaitTimeout_never(k) == FALSE /\ UNCHANGED vars

\* Event.wait returns False: the timeout has elapsed with the flag clear.
WaitTimeout(k) ==
    /\ cpc[k] = "wait"
    /\ ~event_flag[waitOn[k]]
    /\ waited[k] = timeout[k]
    /\ cpc' = [cpc EXCEPT ![k] = "del_timeout"]
    /\ deadline' = [deadline EXCEPT ![k] = TRUE]
    /\ waited' = [waited EXCEPT ![k] = 0]
    /\ waitOn' = [waitOn EXCEPT ![k] = NoMessage]
    /\ lateHandler' = [lateHandler EXCEPT ![k] =
                           \E n \in Names : wmsg[n] = k /\ wpc[n] = "handler"]
    /\ UNCHANGED <<brokerVars, msg, mode, timeout, response, result, workerVars,
                   enqueued, invoked, handlerRet, signalled, after>>
    /\ UNCHANGED <<spc, regVars, handlerVars, chatVars, ctorVars, monVars, histVars>>

\* Mutant of PoppedResponse: the oldest pending response is taken, whatever
\* its id.
PoppedResponse_oldest(k) ==
    LET has == {i \in Ids : pending_responses[i] # NoResponse}
    IN IF has = {} THEN NoResponse
       ELSE pending_responses[CHOOSE i \in has : \A j \in has : i <= j]

\* send_request line 228: self._pending_responses.pop(message.message_id, None)
PoppedResponse(k) == pending_responses[msg[k].message_id]

PopResponse(k) ==
    /\ cpc[k] = "pop"
    /\ response' = [response EXCEPT ![k] = PoppedResponse(k)]
    /\ pending_responses' = [pending_responses EXCEPT ![msg[k].message_id] = NoResponse]
    /\ cpc' = [cpc EXCEPT ![k] = "del_event"]
    /\ UNCHANGED <<agent_handlers, message_queues, response_events, event_flag,
                   message_history, worker_threads, shutdown_event, stats, traces>>
    /\ UNCHANGED <<msg, mode, timeout, waited, waitOn, result, workerVars, ghostVars>>
    /\ UNCHANGED <<spc, regVars, handlerVars, chatVars, ctorVars, monVars, histVars>>

\* Mutant of DelEvent: the Event is left in the table.
DelEvent_keep(k, next) ==
    cpc' = [cpc EXCEPT ![k] = next] /\ UNCHANGED response_events

\* del self._response_events[id]: KeyError when the id is not a key.
DelEvent(k, next) ==
    IF response_events[msg[k].message_id] = NoMessage
    THEN cpc' = [cpc EXCEPT ![k] = "raised"] /\ UNCHANGED response_events
    ELSE /\ cpc' = [cpc EXCEPT ![k] = next]
         /\ response_events' = [response_events EXCEPT ![msg[k].message_id] = NoMessage]

\* send_request line 229
DelEventMatched(k) ==
    /\ cpc[k] = "del_event"
    /\ DelEvent(k, "matched")
    /\ UNCHANGED <<agent_handlers, message_queues, pending_responses, event_flag,
                   message_history, worker_threads, shutdown_event, stats, traces>>
    /\ UNCHANGED <<msg, mode, timeout, waited, waitOn, response, result,
                   workerVars, ghostVars>>
    /\ UNCHANGED <<spc, regVars, handlerVars, chatVars, ctorVars, monVars, histVars>>

\* send_request lines 230-231
ReturnResponse(k) ==
    /\ cpc[k] = "matched"
    /\ stats' = [stats EXCEPT !.responses_matched = @ + 1]
    /\ result' = [result EXCEPT ![k] = response[k]]
    /\ response' = [response EXCEPT ![k] = NoResponse]
    /\ cpc' = [cpc EXCEPT ![k] = "done"]
    /\ UNCHANGED <<agent_handlers, message_queues, pending_responses,
                   response_events, event_flag, message_history, worker_threads,
                   shutdown_event, traces>>
    /\ UNCHANGED <<msg, mode, timeout, waited, waitOn, workerVars, ghostVars>>
    /\ UNCHANGED <<spc, regVars, handlerVars, chatVars, ctorVars, monVars, histVars>>

\* send_request line 234
DelEventTimeout(k) ==
    /\ cpc[k] = "del_timeout"
    /\ DelEvent(k, "timeout_event")
    /\ UNCHANGED <<agent_handlers, message_queues, pending_responses, event_flag,
                   message_history, worker_threads, shutdown_event, stats, traces>>
    /\ UNCHANGED <<msg, mode, timeout, waited, waitOn, response, result,
                   workerVars, ghostVars>>
    /\ UNCHANGED <<spc, regVars, handlerVars, chatVars, ctorVars, monVars, histVars>>

\* send_request lines 236-243
ReturnTimeout(k) ==
    /\ cpc[k] = "timeout_event"
    /\ traces' = record_event_error(traces, msg[k].message_id, "timeout",
                                    "No response received")
    /\ result' = [result EXCEPT ![k] = NoResponse]
    /\ cpc' = [cpc EXCEPT ![k] = "done"]
    /\ UNCHANGED <<agent_handlers, message_queues, pending_responses,
                   response_events, event_flag, message_history, worker_threads,
                   shutdown_event, stats>>
    /\ UNCHANGED <<msg, mode, timeout, waited, waitOn, response, workerVars,
                   ghostVars>>
    /\ UNCHANGED <<spc, regVars, handlerVars, chatVars, ctorVars, monVars, histVars>>

\* ------------------------------------------------ broker.py: worker threads
\* _agent_worker line 104: the loop test.
WorkerCheck(n) ==
    /\ wpc[n] = "check"
    /\ wpc' = [wpc EXCEPT ![n] = IF shutdown_event THEN "exit" ELSE "get"]
    /\ UNCHANGED <<brokerVars, callerVars, wmsg, wpayload, ghostVars>>
    /\ UNCHANGED <<spc, regVars, handlerVars, chatVars, ctorVars, monVars, histVars>>

\* queue.Queue.get: the head of the queue.
QueueHead(q) == Head(q)

\* _agent_worker line 107: a message is taken from the queue now stored under
\* the name.
WorkerGet(n) ==
    /\ wpc[n] = "get"
    /\ message_queues[NameOf(n)] # <<>>
    /\ wmsg' = [wmsg EXCEPT ![n] = QueueHead(message_queues[NameOf(n)])]
    /\ message_queues' = [message_queues EXCEPT ![NameOf(n)] = Tail(@)]
    /\ wpc' = [wpc EXCEPT ![n] = "received"]
    /\ regsAtGet' = [regsAtGet EXCEPT ![QueueHead(message_queues[NameOf(n)])] =
                         Len(registrations[NameOf(n)])]
    /\ UNCHANGED <<agent_handlers, pending_responses, response_events, event_flag,
                   message_history, worker_threads, shutdown_event, stats, traces>>
    /\ UNCHANGED <<callerVars, wpayload, ghostVars>>
    /\ UNCHANGED <<spc, regVars, whandler, registrations, invokedBy,
                   werror, chatVars, ctorVars, monVars, histVars>>

\* _agent_worker lines 107, 162-163 and 104: the poll interval ends with the
\* queue empty (queue.Empty) and the loop test is made again; it sends the
\* worker back to the same get unless shutdown was signalled.
WorkerPollEmpty(n) ==
    /\ wpc[n] = "get"
    /\ message_queues[NameOf(n)] = <<>>
    /\ shutdown_event
    /\ wpc' = [wpc EXCEPT ![n] = "exit"]
    /\ UNCHANGED <<brokerVars, callerVars, wmsg, wpayload, ghostVars>>
    /\ UNCHANGED <<spc, regVars, handlerVars, chatVars, ctorVars, monVars, histVars>>

\* _agent_worker lines 110-115
WorkerReceived(n) ==
    /\ wpc[n] = "received"
    /\ traces' = record_event(traces, msg[wmsg[n]].message_id, "received")
    /\ wpc' = [wpc EXCEPT ![n] = "lookup"]
    /\ UNCHANGED <<agent_handlers, message_queues, pending_responses,
                   response_events, event_flag, message_history, worker_threads,
                   shutdown_event, stats>>
    /\ UNCHANGED <<callerVars, wmsg, wpayload, ghostVars>>
    /\ UNCHANGED <<spc, regVars, handlerVars, chatVars, ctorVars, monVars, histVars>>

\* _agent_worker line 118
WorkerLookup(n) ==
    /\ wpc[n] = "lookup"
    /\ wpc' = [wpc EXCEPT ![n] = IF HasHandler(NameOf(n)) THEN "fetch"
                                 ELSE "delivered"]
    /\ UNCHANGED <<brokerVars, callerVars, wmsg, wpayload, ghostVars>>
    /\ UNCHANGED <<spc, regVars, handlerVars, chatVars, ctorVars, monVars, histVars>>

\* _agent_worker line 119: KeyError when the handler was removed since the
\* test of line 118.
WorkerFetch(n) ==
    /\ wpc[n] = "fetch"
    /\ wpc' = [wpc EXCEPT ![n] = IF HasHandler(NameOf(n)) THEN "processing"
                                 ELSE "error"]
    /\ whandler' = [whandler EXCEPT ![n] = agent_handlers[NameOf(n)]]
    /\ UNCHANGED <<brokerVars, callerVars, wmsg, wpayload, ghostVars>>
    /\ UNCHANGED <<spc, regVars, registrations, regsAtGet, invokedBy,
                   werror, chatVars, ctorVars, monVars, histVars>>

\* _agent_worker lines 164-166: the outer except counts the message as failed
\* and the loop goes on.
WorkerError(n) ==
    /\ wpc[n] = "error"
    /\ stats' = [stats EXCEPT !.messages_failed = @ + 1]
    /\ wpc' = [wpc EXCEPT ![n] = "check"]
    /\ wmsg' = [wmsg EXCEPT ![n] = NoMessage]
    /\ wpayload' = [wpayload EXCEPT ![n] = NoPayload]
    /\ UNCHANGED <<agent_handlers, message_queues, pending_responses,
                   response_events, event_flag, message_history, worker_threads,
                   shutdown_event, traces>>
    /\ UNCHANGED <<callerVars, ghostVars>>
    /\ whandler' = [whandler EXCEPT ![n] = NoHandler]
    /\ UNCHANGED <<spc, regVars, registrations, regsAtGet, invokedBy,
                   werror, chatVars, ctorVars, monVars, histVars>>

\* _agent_worker lines 121-125
WorkerProcessing(n) ==
    /\ wpc[n] = "processing"
    /\ traces' = record_event(traces, msg[wmsg[n]].message_id, "processing")
    /\ wpc' = [wpc EXCEPT ![n] = "handler"]
    /\ invoked' = [invoked EXCEPT ![NameOf(n)] = Append(@, wmsg[n])]
    /\ invokedBy' = [invokedBy EXCEPT ![wmsg[n]] = whandler[n]]
    /\ UNCHANGED <<agent_handlers, message_queues, pending_responses,
                   response_events, event_flag, message_history, worker_threads,
                   shutdown_event, stats>>
    /\ UNCHANGED <<callerVars, wmsg, wpayload, enqueued, handlerRet, deadline,
                   signalled, lateHandler, after>>
    /\ UNCHANGED <<spc, regVars, whandler, registrations, regsAtGet,
                   werror, chatVars, ctorVars, monVars, histVars>>

\* The registered handlers answer from the payload of the message they are
\* given (simple_handler of test_broker_simple.py echoes it).
simple_handler(m) == [status |-> "success", echo |-> m.payload]

\* _agent_worker line 127: the handler returns its payload. A handler that
\* never returns leaves the worker at this step for ever.
HandlerReturns(n) ==
    /\ wpc[n] = "handler"
    /\ wpayload' = [wpayload EXCEPT ![n] = simple_handler(msg[wmsg[n]])]
    /\ handlerRet' = [handlerRet EXCEPT ![wmsg[n]] = simple_handler(msg[wmsg[n]])]
    /\ wpc' = [wpc EXCEPT ![n] = IF msg[wmsg[n]].message_type = "request"
                                 THEN "store" ELSE "delivered"]
    /\ UNCHANGED <<brokerVars, callerVars, wmsg, enqueued, invoked, deadline,
                   signalled, lateHandler, after>>
    /\ UNCHANGED <<spc, regVars, handlerVars, chatVars, ctorVars, monVars, histVars>>

\* _agent_worker lines 127-135 and 149: the handler raises, or returns what
\* create_response rejects as a payload.
HandlerRaises(n) ==
    /\ wpc[n] = "handler"
    /\ wpc' = [wpc EXCEPT ![n] = "failed"]
    /\ \E e \in HandlerErrors : werror' = [werror EXCEPT ![n] = e]
    /\ UNCHANGED <<brokerVars, callerVars, wmsg, wpayload, ghostVars>>
    /\ UNCHANGED <<spc, regVars, whandler, registrations, regsAtGet, invokedBy,
                   chatVars, ctorVars, monVars, histVars>>

\* _agent_worker lines 132-136: the response is stored under the request id.
StoreResponse(n) ==
    [pending_responses EXCEPT ![msg[wmsg[n]].message_id] =
        create_response(msg[wmsg[n]], wmsg[n], wpayload[n])]

WorkerStore(n) ==
    /\ wpc[n] = "store"
    /\ pending_responses' = StoreResponse(n)
    /\ wpc' = [wpc EXCEPT ![n] = "signal"]
    /\ UNCHANGED <<agent_handlers, message_queues, response_events, event_flag,
                   message_history, worker_threads, shutdown_event, stats, traces>>
    /\ UNCHANGED <<callerVars, wmsg, wpayload, ghostVars>>
    /\ UNCHANGED <<spc, regVars, handlerVars, chatVars, ctorVars, monVars, histVars>>

\* _agent_worker line 139: is the id a key of the Event table?
WorkerSignalTest(n) ==
    /\ wpc[n] = "signal"
    /\ IF response_events[msg[wmsg[n]].message_id] # NoMessage
       THEN /\ wpc' = [wpc EXCEPT ![n] = "signal_set"]
            /\ UNCHANGED signalled
       ELSE /\ wpc' = [wpc EXCEPT ![n] = "completed"]
            /\ signalled' = [signalled EXCEPT ![wmsg[n]] =
                                 IF deadline[wmsg[n]] THEN "late" ELSE "in_time"]
    /\ UNCHANGED <<brokerVars, callerVars, wmsg, wpayload, enqueued, invoked,
                   handlerRet, deadline, lateHandler, after>>
    /\ UNCHANGED <<spc, regVars, handlerVars, chatVars, ctorVars, monVars, histVars>>

\* str(e) of the KeyError that a lookup of a missing id raises.
KeyErrorText == "KeyError"

\* _agent_worker line 140: the Event now stored under the id is set.
SignalEvent(n) ==
    [event_flag EXCEPT ![response_events[msg[wmsg[n]].message_id]] = TRUE]

\* line 140: self._response_events[id].set(). The lookup is a second read
\* of the table; when the id was deleted since line 139 it raises KeyError,
\* which the except clause of line 149 catches.
WorkerSignal(n) ==
    /\ wpc[n] = "signal_set"
    /\ IF response_events[msg[wmsg[n]].message_id] # NoMessage
       THEN /\ event_flag' = SignalEvent(n)
            /\ signalled' = [signalled EXCEPT ![wmsg[n]] =
                                 IF deadline[wmsg[n]] THEN "late" ELSE "in_time"]
            /\ wpc' = [wpc EXCEPT ![n] = "completed"]
            /\ UNCHANGED werror
       ELSE /\ werror' = [werror EXCEPT ![n] = KeyErrorText]
            /\ wpc' = [wpc EXCEPT ![n] = "failed"]
            /\ UNCHANGED <<event_flag, signalled>>
    /\ UNCHANGED <<agent_handlers, message_queues, pending_responses,
                   response_events, message_history, worker_threads,
                   shutdown_event, stats, traces>>
    /\ UNCHANGED <<callerVars, wmsg, wpayload, enqueued, invoked, handlerRet,
                   deadline, lateHandler, after>>
    /\ UNCHANGED <<spc, regVars, whandler, registrations, regsAtGet, invokedBy,
                   chatVars, ctorVars, monVars, histVars>>

\* _agent_worker lines 142-147
WorkerCompleted(n) ==
    /\ wpc[n] = "completed"
    /\ traces' = record_event(traces, msg[wmsg[n]].message_id, "completed")
    /\ wpc' = [wpc EXCEPT ![n] = "delivered"]
    /\ UNCHANGED <<agent_handlers, message_queues, pending_responses,
                   response_events, event_flag, message_history, worker_threads,
                   shutdown_event, stats>>
    /\ UNCHANGED <<callerVars, wmsg, wpayload, ghostVars>>
    /\ UNCHANGED <<spc, regVars, handlerVars, chatVars, ctorVars, monVars, histVars>>

\* The same event without the error text.
FailedEvent_no_error(n) == record_event(traces, msg[wmsg[n]].message_id, "failed")

\* The event recorded at lines 153-158, with error=str(e).
FailedEvent(n) ==
    record_event_error(traces, msg[wmsg[n]].message_id, "failed", werror[n])

\* _agent_worker lines 149-158
WorkerFailed(n) ==
    /\ wpc[n] = "failed"
    /\ traces' = FailedEvent(n)
    /\ wpc' = [wpc EXCEPT ![n] = "delivered"]
    /\ UNCHANGED <<agent_handlers, message_queues, pending_responses,
                   response_events, event_flag, message_history, worker_threads,
                   shutdown_event, stats>>
    /\ UNCHANGED <<callerVars, wmsg, wpayload, ghostVars>>
    /\ werror' = [werror EXCEPT ![n] = None]
    /\ UNCHANGED <<spc, regVars, whandler, registrations, regsAtGet, invokedBy,
                   chatVars, ctorVars, monVars, histVars>>

\* _agent_worker line 160
WorkerDelivered(n) ==
    /\ wpc[n] = "delivered"
    /\ stats' = [stats EXCEPT !.messages_delivered = @ + 1]
    /\ wpc' = [wpc EXCEPT ![n] = "check"]
    /\ wmsg' = [wmsg EXCEPT ![n] = NoMessage]
    /\ wpayload' = [wpayload EXCEPT ![n] = NoPayload]
    /\ UNCHANGED <<agent_handlers, message_queues, pending_responses,
                   response_events, event_flag, message_history, worker_threads,
                   shutdown_event, traces>>
    /\ UNCHANGED <<callerVars, ghostVars>>
    /\ whandler' = [whandler EXCEPT ![n] = NoHandler]
    /\ UNCHANGED <<spc, regVars, registrations, regsAtGet, invokedBy,
                   werror, chatVars, ctorVars, monVars, histVars>>

\* ---------------------------------------------------- broker.py: shutdown
\* MessageBroker.shutdown line 247
ShutdownSet ==
    /\ spc = "idle"
    /\ shutdown_event' = TRUE
    /\ spc' = "clear_handlers"
    /\ UNCHANGED <<agent_handlers, message_queues, pending_responses,
                   response_events, event_flag, message_history, worker_threads,
                   stats, traces>>
    /\ UNCHANGED <<callerVars, workerVars, ghostVars, chatVars, ctorVars, monVars, histVars>>
    /\ UNCHANGED <<regVars, handlerVars>>

\* MessageBroker.shutdown line 249
ShutdownClearHandlers ==
    /\ spc = "clear_handlers"
    /\ agent_handlers' = [n \in Names |-> NoHandler]
    /\ spc' = "clear_queues"
    /\ UNCHANGED <<message_queues, pending_responses, response_events, event_flag,
                   message_history, worker_threads, shutdown_event, stats, traces>>
    /\ UNCHANGED <<callerVars, workerVars, ghostVars, chatVars, ctorVars, monVars, histVars>>
    /\ UNCHANGED <<regVars, handlerVars>>

\* MessageBroker.shutdown line 250
ShutdownClearQueues ==
    /\ spc = "clear_queues"
    /\ message_queues' = [n \in Names |-> <<>>]
    /\ spc' = "clear_pending"
    /\ UNCHANGED <<agent_handlers, pending_responses, response_events, event_flag,
                   message_history, worker_threads, shutdown_event, stats, traces>>
    /\ UNCHANGED <<callerVars, workerVars, ghostVars, chatVars, ctorVars, monVars, histVars>>
    /\ UNCHANGED <<regVars, handlerVars>>

\* MessageBroker.shutdown line 251
ShutdownClearPending ==
    /\ spc = "clear_pending"
    /\ pending_responses' = [i \in Ids |-> NoResponse]
    /\ spc' = "idle"
    /\ UNCHANGED <<agent_handlers, message_queues, response_events, event_flag,
                   message_history, worker_threads, shutdown_event, stats, traces>>
    /\ UNCHANGED <<callerVars, workerVars, ghostVars, chatVars, ctorVars, monVars, histVars>>
    /\ UNCHANGED <<regVars, handlerVars>>

\* ------------------------------------------ llm_orchestrator.py: chat turns
\* A turn of the canonical history or of the working copy. Fields a turn
\* does not carry are empty.
Turn(role, content) ==
    [role |-> role, content |-> content, tool_calls |-> <<>>,
     tool_call_id |-> NoId, had_tool_calls |-> FALSE]

SYSTEM_PROMPT == "system prompt"

history_window == 10

\* self.conversation_history[-10:]
LastEntries(h, n) == IF Len(h) <= n THEN h ELSE SubSeq(h, Len(h) - n + 1, Len(h))

\* Mutant of Alternate: every manager turn is kept.
RECURSIVE Alternate_all(_, _, _)
Alternate_all(entries, messages, last_role) ==
    IF entries = <<>> THEN messages
    ELSE LET entry == Head(entries)
         IN Alternate_all(Tail(entries),
                          Append(messages,
                                 Turn(IF entry.role = "human" THEN "user"
                                      ELSE "assistant", entry.content)),
                          last_role)

\* _build_conversation_messages lines 379-393: human turns are always kept,
\* a manager turn only right after a user message.
RECURSIVE Alternate(_, _, _)
Alternate(entries, messages, last_role) ==
    IF entries = <<>> THEN messages
    ELSE LET entry == Head(entries)
         IN IF entry.role = "human"
            THEN Alternate(Tail(entries),
                           Append(messages, Turn("user", entry.content)), "user")
            ELSE IF entry.role = "manager" /\ last_role = "user"
            THEN Alternate(Tail(entries),
                           Append(messages, Turn("assistant", entry.content)),
                           "assistant")
            ELSE Alternate(Tail(entries), messages, last_role)

\* _build_conversation_messages lines 397-402: a trailing assistant message
\* is cut off, back to the last user message.
TrimTrailingAssistant(messages) ==
    IF Len(messages) > 1 /\ messages[Len(messages)].role = "assistant"
    THEN LET users == {i \in 2..Len(messages) : messages[i].role = "user"}
         IN IF users = {} THEN messages
            ELSE SubSeq(messages, 1, CHOOSE i \in users : \A j \in users : j <= i)
    ELSE messages

build_conversation_messages(h) ==
    TrimTrailingAssistant(
        Alternate(LastEntries(h, history_window),
                  <<Turn("system", SYSTEM_PROMPT)>>, "system"))

\* response.content if ... and response.content else "" ; content or ""
OrEmpty(c) == IF c = None THEN "" ELSE c

\* --------------------------------------------- llm_orchestrator.py: chat
brokerSide == <<brokerSideVars, monVars, histVars, ctorVars>>

\* chat lines 329-336: the request is counted and the human turn appended.
ChatCall(human_message) ==
    /\ mpc = "idle"
    /\ total_requests < MaxChats
    /\ total_requests' = total_requests + 1
    /\ conversation_history' =
           Append(conversation_history, Turn("human", human_message))
    /\ historyBefore' = Len(conversation_history)
    /\ mpc' = "build"
    /\ answer' = None
    /\ enabledCalls' = 0
    /\ finalCalls' = 0
    /\ allRequested' = TRUE
    /\ failed' = FALSE
    /\ exc' = NoException
    /\ requestedIds' = {}
    /\ noReply' = {}
    /\ obtained' = {}
    /\ UNCHANGED <<tool_messages, made_tool_calls, rounds, response_content,
                   tool_calls, tool_results, tool_calls_list>>
    /\ UNCHANGED brokerSide

\* chat line 340 and _get_llm_response_with_tools lines 412-419: the working
\* copy is a deep copy of the messages built from the canonical history.
BuildMessages ==
    /\ mpc = "build"
    /\ tool_messages' = build_conversation_messages(conversation_history)
    /\ made_tool_calls' = FALSE
    /\ rounds' = 0
    /\ tool_calls' = <<>>
    /\ tool_results' = <<>>
    /\ tool_calls_list' = <<>>
    /\ response_content' = None
    /\ mpc' = "loop"
    /\ UNCHANGED <<conversation_history, total_requests, answer, historyBefore,
                   enabledCalls, finalCalls, allRequested, failed>>
    /\ UNCHANGED exc
    /\ UNCHANGED <<requestedIds, noReply, obtained>>
    /\ UNCHANGED brokerSide

max_rounds == 5

\* Mutant of LoopContinues: one round too many.
LoopContinues_one_more(r) == r <= max_rounds

\* _get_llm_response_with_tools line 421
LoopContinues(r) == r < max_rounds

\* lines 421-422
LoopTest ==
    /\ mpc = "loop"
    /\ IF LoopContinues(rounds)
       THEN rounds' = rounds + 1 /\ mpc' = "oracle"
       ELSE UNCHANGED rounds /\ mpc' = "final"
    /\ UNCHANGED <<conversation_history, total_requests, tool_messages,
                   made_tool_calls, response_content, tool_calls, tool_results,
                   tool_calls_list, answer, historyBefore, enabledCalls,
                   finalCalls, allRequested, failed>>
    /\ UNCHANGED exc
    /\ UNCHANGED <<requestedIds, noReply, obtained>>
    /\ UNCHANGED brokerSide

\* The tool calls of one response: 1..MaxToolCalls calls, each with
\* arguments that are JSON or are not.
ToolCallLists ==
    UNION {[1..n -> Arguments] : n \in 1..MaxToolCalls}

\* tool_call.id is unique: the i-th call of the response of round r.
ToolCallsOf(r, args, names) ==
    [i \in 1..Len(args) |->
        [id |-> <<r, i>>, name |-> names[i], arguments |-> args[i]]]

AllValid(args) == \A i \in 1..Len(args) : args[i] = "valid"

\* lines 425-437: the oracle, called with the tools, requests invocations.
OracleRequestsTools(content, args, names) ==
    /\ mpc = "oracle"
    /\ enabledCalls' = enabledCalls + 1
    /\ allRequested' = (allRequested /\ AllValid(args))
    /\ made_tool_calls' = TRUE
    /\ response_content' = content
    /\ tool_calls' = ToolCallsOf(rounds, args, names)
    /\ requestedIds' = requestedIds \cup {<<rounds, i>> : i \in 1..Len(args)}
    /\ tool_results' = <<>>
    /\ tool_calls_list' = <<>>
    /\ mpc' = "tools"
    /\ UNCHANGED <<conversation_history, total_requests, tool_messages, rounds,
                   answer, historyBefore, finalCalls, failed>>
    /\ UNCHANGED <<noReply, obtained, exc>>
    /\ UNCHANGED brokerSide

\* lines 425-432 and 480-487: the oracle, called with the tools, answers
\* without a tool call.
OracleAnswers(content) ==
    /\ mpc = "oracle"
    /\ enabledCalls' = enabledCalls + 1
    /\ allRequested' = FALSE
    /\ response_content' = content
    /\ mpc' = "append"
    /\ UNCHANGED <<conversation_history, total_requests, tool_messages,
                   made_tool_calls, rounds, tool_calls, tool_results,
                   tool_calls_list, answer, historyBefore, finalCalls, failed>>
    /\ UNCHANGED exc
    /\ UNCHANGED <<requestedIds, noReply, obtained>>
    /\ UNCHANGED brokerSide

\* line 425 or line 491: the oracle raises; the exception leaves the loop.
OracleRaises(e) ==
    /\ mpc \in {"oracle", "final"}
    /\ exc' = e
    /\ enabledCalls' = IF mpc = "oracle" THEN enabledCalls + 1 ELSE enabledCalls
    /\ finalCalls' = IF mpc = "final" THEN finalCalls + 1 ELSE finalCalls
    /\ allRequested' = FALSE
    /\ mpc' = "except"
    /\ UNCHANGED <<conversation_history, total_requests, tool_messages,
                   made_tool_calls, rounds, response_content, tool_calls,
                   tool_results, tool_calls_list, answer, historyBefore, failed>>
    /\ UNCHANGED <<requestedIds, noReply, obtained>>
    /\ UNCHANGED brokerSide

\* What the calls of send_request made by one tool can return to it, one
\* after the other.
RepliesOf(name) ==
    CASE name \in {"message_planner", "message_rag", "message_executor"} ->
             {<<r>> : r \in Replies}
      [] name = "get_agent_status" ->
             {<<>>} \cup {<<r>> : r \in Replies}
      [] name = "coordinate_agents" ->
             {<<NoReply>>} \cup {<<"success", r>> : r \in Replies}
      [] OTHER -> {<<>>}

\* _message_planner, _message_rag, _message_executor: the payload of the
\* response, or an error report when send_request returned None.
message_agent(reply) == IF reply # NoReply THEN reply ELSE "error"

\* _get_agent_status: no request is made for an agent the manager does not
\* know.
get_agent_status(replies) ==
    IF replies = <<>> THEN "not_registered"
    ELSE IF replies[1] # NoReply THEN replies[1] ELSE "no_response"

\* _coordinate_agents, workflows plan_with_context and analyze_and_refactor:
\* the planner is asked only after the analysis succeeded, and its result is
\* wrapped in a success report.
coordinate_agents(replies) ==
    IF message_agent(replies[1]) = "success" THEN "success" ELSE "failed"

\* _execute_orchestration_tool: the status of the report the tool returns;
\* nothing is raised to the loop.
execute_orchestration_tool(name, replies) ==
    CASE name \in {"message_planner", "message_rag", "message_executor"} ->
             message_agent(replies[1])
      [] name = "get_agent_status" -> get_agent_status(replies)
      [] name = "coordinate_agents" -> coordinate_agents(replies)
      [] OTHER -> "unknown_tool"

GotNoReply(replies) == \E i \in 1..Len(replies) : replies[i] = NoReply

\* lines 439-460: the next tool call of the response. json.loads raises on
\* arguments that are not JSON, and the exception leaves the loop.
ExecuteTool(replies) ==
    /\ mpc = "tools"
    /\ tool_calls # <<>>
    /\ replies \in RepliesOf(Head(tool_calls).name)
    /\ IF Head(tool_calls).arguments = "malformed"
       THEN /\ mpc' = "except"
            /\ exc' = "JSONDecodeError"
            /\ UNCHANGED <<tool_calls, tool_results, tool_calls_list, noReply,
                           obtained>>
       ELSE /\ tool_results' =
                   Append(tool_results,
                          [tool_call_id |-> Head(tool_calls).id,
                           output |-> execute_orchestration_tool(
                                          Head(tool_calls).name, replies)])
            /\ tool_calls_list' = Append(tool_calls_list, Head(tool_calls).id)
            /\ tool_calls' = Tail(tool_calls)
            /\ noReply' = IF GotNoReply(replies)
                          THEN noReply \cup {Head(tool_calls).id} ELSE noReply
            /\ obtained' = obtained \cup
                   {[id |-> Head(tool_calls).id,
                     output |-> execute_orchestration_tool(Head(tool_calls).name,
                                                           replies)]}
            /\ UNCHANGED <<mpc, exc>>
    /\ UNCHANGED <<conversation_history, total_requests, tool_messages,
                   made_tool_calls, rounds, response_content, answer,
                   historyBefore, enabledCalls, finalCalls, allRequested, failed>>
    /\ UNCHANGED requestedIds
    /\ UNCHANGED brokerSide

\* lines 463-467: the assistant turn that carries the tool calls.
AssistantTurn(content, calls) ==
    [Turn("assistant", OrEmpty(content)) EXCEPT !.tool_calls = calls]

\* Mutant of ToolTurns: the results are paired with the tags in reverse.
ToolTurns_reversed(results) ==
    [i \in 1..Len(results) |->
        [Turn("tool", results[Len(results) + 1 - i].output) EXCEPT
            !.tool_call_id = results[i].tool_call_id]]

\* lines 470-475: one tool turn per result.
ToolTurns(results) ==
    [i \in 1..Len(results) |->
        [Turn("tool", results[i].output) EXCEPT
            !.tool_call_id = results[i].tool_call_id]]

\* lines 463-478: the turns of the round go to the working copy, and the loop
\* goes on.
RoundAppend ==
    /\ mpc = "tools"
    /\ tool_calls = <<>>
    /\ tool_messages' =
           Append(tool_messages, AssistantTurn(response_content, tool_calls_list))
               \o ToolTurns(tool_results)
    /\ mpc' = "loop"
    /\ UNCHANGED <<conversation_history, total_requests, made_tool_calls, rounds,
                   response_content, tool_calls, tool_results, tool_calls_list,
                   answer, historyBefore, enabledCalls, finalCalls, allRequested,
                   failed>>
    /\ UNCHANGED exc
    /\ UNCHANGED <<requestedIds, noReply, obtained>>
    /\ UNCHANGED brokerSide

\* lines 490-498: the last call of the oracle, without tools.
FinalCall(content) ==
    /\ mpc = "final"
    /\ finalCalls' = finalCalls + 1
    /\ response_content' = content
    /\ mpc' = "append"
    /\ UNCHANGED <<conversation_history, total_requests, tool_messages,
                   made_tool_calls, rounds, tool_calls, tool_results,
                   tool_calls_list, answer, historyBefore, enabledCalls,
                   allRequested, failed>>
    /\ UNCHANGED exc
    /\ UNCHANGED <<requestedIds, noReply, obtained>>
    /\ UNCHANGED brokerSide

\* chat lines 346-351
ManagerTurn(content, had_tool_calls) ==
    [Turn("manager", content) EXCEPT !.had_tool_calls = had_tool_calls]

\* lines 485/496 and chat lines 343-353: the loop returns `content or ""`,
\* chat appends it to the canonical history and returns it.
AppendAnswer ==
    /\ mpc = "append"
    /\ conversation_history' =
           Append(conversation_history,
                  ManagerTurn(OrEmpty(response_content), made_tool_calls))
    /\ answer' = OrEmpty(response_content)
    /\ mpc' = "idle"
    /\ UNCHANGED <<total_requests, tool_messages, made_tool_calls, rounds,
                   response_content, tool_calls, tool_results, tool_calls_list,
                   historyBefore, enabledCalls, finalCalls, allRequested, failed>>
    /\ UNCHANGED exc
    /\ UNCHANGED <<requestedIds, noReply, obtained>>
    /\ UNCHANGED brokerSide

error_msg == "I encountered an error processing your request"

\* Mutant of HistoryAfterError: the error answer is returned, not recorded.
HistoryAfterError_dropped(h) == h

\* chat lines 361-366
HistoryAfterError(h) == Append(h, ManagerTurn(error_msg, FALSE))

\* Mutant of ExceptCatches: only the error of the oracle is caught.
ExceptCatches_oracle_only(e) == e \in OracleErrors

\* chat line 355: `except Exception` catches whatever the oracle raised and
\* the JSONDecodeError of json.loads.
ExceptCatches(e) == e \in OracleErrors \cup {"JSONDecodeError"}

\* chat lines 355-368: the except branch; an exception it does not catch
\* leaves chat.
AppendError ==
    /\ mpc = "except"
    /\ IF ExceptCatches(exc)
       THEN /\ conversation_history' = HistoryAfterError(conversation_history)
            /\ answer' = error_msg
            /\ failed' = TRUE
            /\ mpc' = "idle"
       ELSE /\ mpc' = "raised"
            /\ UNCHANGED <<conversation_history, answer, failed>>
    /\ UNCHANGED <<total_requests, tool_messages, made_tool_calls, rounds,
                   response_content, tool_calls, tool_results, tool_calls_list,
                   historyBefore, enabledCalls, finalCalls, allRequested>>
    /\ UNCHANGED exc
    /\ UNCHANGED <<requestedIds, noReply, obtained>>
    /\ UNCHANGED brokerSide

AllReplies == UNION {RepliesOf(name) : name \in ToolNames}

\* The steps of the thread inside chat, for an oracle that names the tools of
\* `names` and requests at most `budget` invocations in one call of chat.
ChatStepWith(names, budget) ==
    \/ BuildMessages \/ LoopTest
    \/ \E c \in RequestContents, args \in ToolCallLists :
          \E nm \in [1..Len(args) -> names] :
              /\ Cardinality(requestedIds) + Len(args) <= budget
              /\ OracleRequestsTools(c, args, nm)
    \/ \E c \in Contents : OracleAnswers(c)
    \/ \E e \in OracleErrors : OracleRaises(e)
    \/ \E replies \in AllReplies : ExecuteTool(replies)
    \/ RoundAppend
    \/ \E c \in Contents : FinalCall(c)
    \/ AppendAnswer \/ AppendError

\* The oracle asks for the planner only, as often as it likes.
ChatStep == ChatStepWith({"message_planner"}, max_rounds * MaxToolCalls)

\* ------------------------------------------------------------ specification
RouteStep(k) ==
    \/ RouteStartTrace(k) \/ RouteHistory(k) \/ RouteCheck(k) \/ RoutePut(k)
    \/ RouteSentStat(k) \/ RouteSentEvent(k) \/ RouteFailedStat(k)
    \/ RouteNoHandlerEvent(k)

CallerStep(k) ==
    \/ RouteStep(k)
    \/ WaitEnter(k) \/ WaitSignalled(k) \/ WaitTimeout(k) \/ PopResponse(k)
    \/ DelEventMatched(k) \/ ReturnResponse(k) \/ DelEventTimeout(k)
    \/ ReturnTimeout(k)

WorkerStep(n) ==
    \/ WorkerCheck(n) \/ WorkerGet(n) \/ WorkerReceived(n) \/ WorkerLookup(n)
    \/ WorkerFetch(n) \/ WorkerProcessing(n) \/ HandlerReturns(n)
    \/ HandlerRaises(n) \/ WorkerStore(n) \/ WorkerSignalTest(n)
    \/ WorkerSignal(n)
    \/ WorkerCompleted(n) \/ WorkerFailed(n) \/ WorkerDelivered(n)

\* The worker while no thread calls send_request: no Event is ever stored,
\* the test of line 139 fails and line 140 is not reached.
WorkerStepUnawaited(n) ==
    \/ WorkerCheck(n) \/ WorkerGet(n) \/ WorkerReceived(n) \/ WorkerLookup(n)
    \/ WorkerFetch(n) \/ WorkerProcessing(n) \/ HandlerReturns(n)
    \/ HandlerRaises(n) \/ WorkerStore(n) \/ WorkerSignalTest(n)
    \/ WorkerCompleted(n) \/ WorkerFailed(n) \/ WorkerDelivered(n)

\* The running broker, used as the repository uses it: message ids are drawn
\* by uuid4 (protocol.py line 28), so the id of the k-th message is k and
\* differs from every other id; no caller passes a priority.
Next ==
    \/ \E n \in Names : register_agent(n)
    \/ \E k \in Calls, r \in Names, t \in 1..MaxTimeout :
          CallSendRequest(k, k, r, t, default_priority)
    \/ \E k \in Calls, r \in Names, kd \in Kinds :
          CallRouteMessage(k, k, r, kd, default_priority)
    \/ \E k \in Calls : CallerStep(k)
    \/ \E k \in Calls : Tick(k)
    \/ \E n \in Names : WorkerStep(n)

Spec == Init /\ [][Next]_vars

\* A caller thread makes its calls one after the other.
Sequential(k) == IF k = 1 THEN TRUE ELSE cpc[k - 1] = "done"

\* Threads that register a handler for the same name at the same time while
\* messages are routed to it.
NextRegister ==
    \/ \E r \in Registrars, h \in Handlers : CallRegister(r, "planner", h)
    \/ \E r \in Registrars : RegisterStep(r)
    \/ \E k \in Calls, kd \in Kinds :
          Sequential(k) /\ CallRouteMessage(k, k, "planner", kd, default_priority)
    \/ \E k \in Calls : RouteStep(k)
    \/ \E w \in Workers : WorkerStepUnawaited(w)

SpecRegister == Init /\ [][NextRegister]_vars

\* Callers that pass a priority to the messages they route.
NextPriority ==
    \/ \E n \in Names : register_agent(n)
    \/ \E k \in Calls, r \in Names, kd \in Kinds, p \in Priorities :
          CallRouteMessage(k, k, r, kd, p)
    \/ \E k \in Calls : RouteStep(k)
    \/ \E n \in Names : WorkerStepUnawaited(n)

SpecPriority == Init /\ [][NextPriority]_vars

\* Callers that pass a message id of their own, which may be the id of an
\* earlier message.
NextSameId ==
    \/ register_agent("planner")
    \/ \E k \in Calls : \E i \in 1..k, t \in 1..MaxTimeout :
          CallSendRequest(k, i, "planner", t, default_priority)
    \/ \E k \in Calls : CallerStep(k)
    \/ \E k \in Calls : Tick(k)
    \/ \E n \in Names : WorkerStep(n)

SpecSameId == Init /\ [][NextSameId]_vars

\* One caller thread that makes its requests one after the other (the
\* manager's tool loop), each to any agent.

NextSequential ==
    \/ \E n \in Names : register_agent(n)
    \/ \E k \in Calls, r \in Names, t \in 1..MaxTimeout :
          Sequential(k) /\ CallSendRequest(k, k, r, t, default_priority)
    \/ \E k \in Calls : CallerStep(k)
    \/ \E k \in Calls : Tick(k)
    \/ \E n \in Names : WorkerStep(n)

SpecSequential == Init /\ [][NextSequential]_vars

\* The same caller thread, and a thread that calls shutdown meanwhile
\* (MultiAgentSystem.shutdown_system calls it once, and registers no agent
\* afterwards).
RegisterWhileRunning(n) == ~shutdown_event /\ register_agent(n)

ShutdownOnce ==
    \/ ~shutdown_event /\ ShutdownSet
    \/ ShutdownClearHandlers \/ ShutdownClearQueues \/ ShutdownClearPending

NextShutdown ==
    \/ RegisterWhileRunning("planner")
    \/ \E k \in Calls, t \in 1..MaxTimeout :
          Sequential(k) /\ CallSendRequest(k, k, "planner", t, default_priority)
    \/ \E k \in Calls : CallerStep(k)
    \/ \E k \in Calls : Tick(k)
    \/ \E n \in Names : WorkerStep(n)
    \/ \E n \in Names : WorkerPollEmpty(n)
    \/ \E n \in Names : WorkerError(n)
    \/ ShutdownOnce

SpecShutdown == Init /\ [][NextShutdown]_vars

\* Calls made after shutdown has returned, while any thread may register a
\* handler before, during or after the shutdown.
ShutdownReturned == shutdown_event /\ spc = "idle"

NextAfterShutdown ==
    \/ register_agent("planner")
    \/ \E k \in Calls, t \in 1..MaxTimeout :
          /\ ShutdownReturned /\ Sequential(k)
          /\ CallSendRequest(k, k, "planner", t, default_priority)
    \/ \E k \in Calls, kd \in Kinds :
          /\ ShutdownReturned /\ Sequential(k)
          /\ CallRouteMessage(k, k, "planner", kd, default_priority)
    \/ \E k \in Calls : CallerStep(k)
    \/ \E k \in Calls : Tick(k)
    \/ \E n \in Names : WorkerStep(n)
    \/ \E n \in Names : WorkerPollEmpty(n)
    \/ ShutdownOnce

SpecAfterShutdown == Init /\ [][NextAfterShutdown]_vars

\* Callers that build their messages from any arguments and route them.
NextConstruct ==
    \/ register_agent("planner")
    \/ \E k \in Calls, sn \in SenderArgs, r \in RecipientArgs, kd \in KindArgs :
          ConstructAndRoute(k, sn, r, kd)
    \/ \E k \in Calls : RouteStep(k)
    \/ \E n \in Names : WorkerStepUnawaited(n)

SpecConstruct == Init /\ [][NextConstruct]_vars

\* Threads that route at the same time through a broker whose history is
\* full or nearly so.
RouteStepHistory(k) ==
    \/ RouteStartTrace(k) \/ RouteHistoryAppend(k) \/ RouteHistoryTrim(k)
    \/ RouteCheck(k) \/ RoutePut(k) \/ RouteSentStat(k) \/ RouteSentEvent(k)
    \/ RouteFailedStat(k) \/ RouteNoHandlerEvent(k)

NextHistory ==
    \/ register_agent("planner")
    \/ \E k \in Calls, r \in Names, kd \in Kinds :
          CallRouteMessage(k, k, r, kd, default_priority)
    \/ \E k \in Calls : RouteStepHistory(k)

SpecHistory == InitHistory /\ [][NextHistory]_vars

\* The monitor alone: threads that record events for the same ids.
NextMonitor ==
    \/ \E t \in Recorders, i \in Ids, st \in EventStatuses :
          CallRecordEvent(t, i, st)
    \/ \E t \in Recorders : RecordStep(t)

SpecMonitor == Init /\ [][NextMonitor]_vars

\* Scheduling: a caller thread that can take a step takes it, and the time
\* of a bounded wait passes. Nothing is assumed of the workers, of the
\* handlers they call, or of the thread that calls shutdown.
CallerFairness == \A k \in Calls : WF_vars(CallerStep(k)) /\ WF_vars(Tick(k))

SpecLive == SpecShutdown /\ CallerFairness

\* The manager: chat is called again and again, by one thread.
NextChat ==
    \/ \E h \in HumanMessages : ChatCall(h)
    \/ ChatStep

SpecChat == Init /\ [][NextChat]_vars

\* Scheduling: the thread inside chat goes on, and every call of the oracle
\* and of a tool comes back (with a value or an exception).
SpecChatLive == SpecChat /\ WF_vars(ChatStep)

\* One call of chat in which the oracle chooses among all the tools.
NextTools ==
    \/ \E h \in HumanMessages : total_requests = 0 /\ ChatCall(h)
    \/ ChatStepWith(ToolNames, MaxInvocations)

SpecTools == Init /\ [][NextTools]_vars

\* A handler that calls send_request itself: the handler of "planner", running
\* on planner's worker thread for the first request, may send a request to
\* "rag" (enhanced_planner.py _request_rag_analysis, enhanced_executor.py
\* _report_progress) and returns only when that call has returned. The first
\* request comes from the manager's thread or from a thread of the "rag"
\* agent itself.
OuterSenders == {"manager", "rag"}

OuterRequest(sender, t) ==
    SendRequestFrom(sender, 1, 1, "planner", t, default_priority)

NestedRequest(t) ==
    /\ wpc["planner"] = "handler"
    /\ wmsg["planner"] = 1
    /\ SendRequestFrom("planner", 2, 2, "rag", t, default_priority)

\* The handler returns after the calls it makes: the call of send_request
\* inside it is synchronous.
HandlerMayReturn(n) ==
    IF n = "planner" /\ wmsg[n] = 1
    THEN cpc[2] \in {"idle", "done", "raised"}
    ELSE TRUE

NestedHandlerReturns(n) == HandlerMayReturn(n) /\ HandlerReturns(n)

NestedWorkerStep(n) ==
    \/ WorkerCheck(n) \/ WorkerGet(n) \/ WorkerReceived(n) \/ WorkerLookup(n)
    \/ WorkerFetch(n) \/ WorkerProcessing(n) \/ NestedHandlerReturns(n)
    \/ WorkerStore(n) \/ WorkerSignalTest(n) \/ WorkerSignal(n)
    \/ WorkerCompleted(n) \/ WorkerFailed(n) \/ WorkerDelivered(n)

NextNested ==
    \/ \E n \in Names : register_agent(n)
    \/ \E sender \in OuterSenders, t \in 1..MaxTimeout : OuterRequest(sender, t)
    \/ \E t \in 1..MaxTimeout : NestedRequest(t)
    \/ \E k \in Calls : CallerStep(k)
    \/ \E k \in Calls : Tick(k)
    \/ \E n \in Names : NestedWorkerStep(n)

SpecNested == Init /\ [][NextNested]_vars

\* Scheduling: every thread that can take a step takes it, the time of a
\* bounded wait passes, and the handlers return.
NestedFairness ==
    /\ \A k \in Calls : WF_vars(CallerStep(k)) /\ WF_vars(Tick(k))
    /\ \A n \in Names : WF_vars(NestedWorkerStep(n))

SpecNestedLive == SpecNested /\ NestedFairness

\* Threads that construct the broker on first use; a thread whose
\* construction has returned registers an agent or routes a message.
NextSingleton ==
    \/ \E c \in Constructors : ConstructStep(c)
    \/ SomeBuilt /\ register_agent("planner")
    \/ \E k \in Calls, kd \in Kinds :
          SomeBuilt /\ CallRouteMessage(k, k, "planner", kd, default_priority)
    \/ \E k \in Calls : RouteStep(k)

SpecSingleton == InitSingleton /\ [][NextSingleton]_vars

\* The longest canonical history a chat starts from: one more than the
\* window, so that with the new human turn two entries fall out of it.
MaxHistory == 11

\* What the earlier turns of a canonical history say.
OldContents == {"old"}

\* The canonical histories: the sequences of human and manager turns.
CanonicalHistories ==
    UNION {[1..n -> {Turn(r, c) : r \in {"human", "manager"}, c \in OldContents}] :
           n \in 0..MaxHistory}

\* A manager whose canonical history is any sequence of human and manager
\* turns.
InitTranscript ==
    /\ InitRest
    /\ message_history = <<>>
    /\ routed = <<>>
    /\ conversation_history \in CanonicalHistories

\* One call of chat on such a history: the oracle asks for the planner in
\* the first round, and in every round it answers or raises.
NextTranscript ==
    \/ \E h \in HumanMessages : total_requests = 0 /\ ChatCall(h)
    \/ BuildMessages
    \/ LoopTest
    \/ \E c \in RequestContents, args \in ToolCallLists :
          \E nm \in [1..Len(args) -> {"message_planner"}] :
              rounds = 1 /\ OracleRequestsTools(c, args, nm)
    \/ \E c \in Contents : OracleAnswers(c)
    \/ \E e \in OracleErrors : OracleRaises(e)
    \/ \E replies \in AllReplies : ExecuteTool(replies)
    \/ RoundAppend
    \/ AppendAnswer
    \/ AppendError

SpecTranscript == InitTranscript /\ [][NextTranscript]_vars

\* ------------------------------------------------------------------ claims
IsPrefix(a, b) == Len(a) <= Len(b) /\ \A i \in 1..Len(a) : a[i] = b[i]
Events(k) == traces[msg[k].message_id].events
Statuses(k) == [i \in 1..Len(Events(k)) |-> Events(k)[i].status]
HasEvent(k, status) == \E i \in 1..Len(Events(k)) : Events(k)[i].status = status
Sent(k) == cpc[k] # "idle" /\ mode[k] = "send_request"

\* C1: send_request to a recipient without a handler returns "no response"
\* right after routing: the caller never blocks on the completion signal
\* while the timeout runs, whatever the timeout.
NoHandlerFailFast ==
    \A k \in Calls : (Sent(k) /\ HasEvent(k, "no_handler")) =>
                        (waited[k] = 0 /\ ~deadline[k])

\* C2: for every recipient the messages its handler is invoked on are, in
\* order and without duplicates, a prefix of the messages route_message
\* enqueued for it, whatever the priorities of the messages.
FifoPerRecipient ==
    \A n \in Names : IsPrefix(invoked[n], enqueued[n])

\* C2 witness: the handler got a low-priority message before a high-priority
\* message that was enqueued after it.
FifoWitness ==
    \E n \in Names :
        /\ Len(invoked[n]) = 2
        /\ msg[invoked[n][1]].priority = 5
        /\ msg[invoked[n][2]].priority = 1

\* C3: of two concurrent send_request calls whose messages carry the same id,
\* neither raises and the second never returns the response built for the
\* first call's message.
SameIdIsolated ==
    \A k \in Calls :
        /\ cpc[k] # "raised"
        /\ \A j \in 1..(k - 1) :
              (msg[j].message_id = msg[k].message_id /\ cpc[j] # "idle"
               /\ cpc[k] = "done" /\ result[k] # NoResponse)
              => result[k].request # j

\* C4: the pending tables hold an entry for an id only while a send_request
\* call for that id is in flight.
InFlight(i) ==
    \E k \in Calls : /\ msg[k].message_id = i
                     /\ mode[k] = "send_request"
                     /\ cpc[k] \notin {"idle", "done", "raised"}

PendingOnlyInFlight ==
    \A i \in Ids :
        (pending_responses[i] # NoResponse \/ response_events[i] # NoMessage)
        => InFlight(i)

\* C5: a send_request whose wait ends by the timeout does not raise; it
\* removes the Event stored for the id, appends a Timeout event to the trace
\* of the message and returns "no response".
TimeoutReturnsNoResponse ==
    \A k \in Calls :
        deadline[k] =>
            /\ cpc[k] # "raised"
            /\ cpc[k] \in {"timeout_event", "done"}
                  => response_events[msg[k].message_id] = NoMessage
            /\ cpc[k] = "done" => (result[k] = NoResponse /\ HasEvent(k, "timeout"))

\* C5 witness: a call has returned by the timeout while the worker is still
\* inside the handler for its message.
TimeoutWitness ==
    \E k \in Calls, n \in Names :
        /\ deadline[k] /\ cpc[k] = "done" /\ result[k] = NoResponse
        /\ wmsg[n] = k /\ wpc[n] = "handler"

\* C6: no lost wake-up. When the worker passes the completion signal for
\* request k before the caller's wait has timed out, the wait never ends by
\* the timeout, the call does not raise, and it returns a response whose
\* payload is the payload the handler returned.
NoLostWakeup ==
    \A k \in Calls :
        (Sent(k) /\ signalled[k] = "in_time") =>
            /\ ~deadline[k]
            /\ cpc[k] # "raised"
            /\ cpc[k] = "done" => (/\ result[k] # NoResponse
                                   /\ result[k].payload = handlerRet[k])

\* C6 witness: the worker had completed the request before the caller had
\* finished route_message (Completed precedes Sent in the trace), and the
\* call returned the handler's payload.
NoLostWakeupWitness ==
    \E k \in Calls :
        /\ Sent(k) /\ cpc[k] = "done"
        /\ Statuses(k) = <<"received", "processing", "completed", "sent">>
        /\ result[k] # NoResponse
        /\ result[k].payload = simple_handler(msg[k])

\* C7: after a send_request j to a recipient timed out while the handler was
\* still running, a later send_request k (another id) to the same recipient
\* whose handler completes within its timeout returns the response to its
\* own request, not the late response of j and not "no response".
LaterThanTimedOut(j, k) ==
    /\ j \in after[k] /\ lateHandler[j]
    /\ msg[j].recipient = msg[k].recipient
    /\ msg[j].message_id # msg[k].message_id
    /\ Sent(k) /\ signalled[k] = "in_time"

NoResidueAfterTimeout ==
    \A j, k \in Calls :
        LaterThanTimedOut(j, k) =>
            /\ ~deadline[k]
            /\ cpc[k] # "raised"
            /\ cpc[k] = "done" => (/\ result[k] # NoResponse
                                   /\ result[k].correlation_id = msg[k].message_id
                                   /\ result[k].request = k)

\* C7 witness: the later call has returned its own response while the late
\* response of the timed-out call lies in the pending table.
NoResidueWitness ==
    \E j, k \in Calls :
        /\ LaterThanTimedOut(j, k) /\ cpc[k] = "done"
        /\ result[k] # NoResponse /\ result[k].request = k
        /\ pending_responses[msg[j].message_id] # NoResponse

\* C8: every call of send_request returns, with a response or with "no
\* response", whatever the handler does (returns, raises, never returns) and
\* whether or not shutdown runs while the caller is blocked; a caller that
\* is not blocked on the completion signal can always take its next step.
SendRequestReturns ==
    /\ \A k \in Calls : (cpc[k] # "idle") ~> (cpc[k] = "done")
    /\ [](\A k \in Calls : cpc[k] \notin {"idle", "wait", "done"}
                              => ENABLED CallerStep(k))

\* C8 witness: a call has returned although its handler never returned and
\* shutdown ran meanwhile.
SendRequestReturnsWitness ==
    \E k \in Calls, n \in Names :
        /\ cpc[k] = "done" /\ shutdown_event /\ spc = "idle"
        /\ wmsg[n] = k /\ wpc[n] = "handler"

Returned == mpc = "idle" /\ total_requests > 0

\* C9: the dispatch loop makes at most max_rounds oracle calls with the
\* tools enabled and at most one without, the latter only after max_rounds
\* of the former; when every call with the tools enabled requested an
\* invocation, it has made exactly max_rounds such calls and exactly one
\* final call when it returns, and the answer is not None; and every call
\* of chat returns.
DispatchLoopTerminates ==
    /\ [](/\ enabledCalls <= max_rounds
          /\ finalCalls <= 1
          /\ finalCalls = 1 => enabledCalls = max_rounds
          /\ (Returned /\ allRequested) =>
                (/\ enabledCalls = max_rounds /\ finalCalls = 1
                 /\ answer # None /\ ~failed))
    /\ (mpc # "idle") ~> (mpc = "idle")

\* C9 witness: a call has returned after max_rounds rounds of tool calls and
\* the final call.
DispatchLoopWitness ==
    /\ Returned /\ allRequested
    /\ enabledCalls = max_rounds /\ finalCalls = 1 /\ answer = ""

IsToolExchange(t) ==
    t.role \in {"assistant", "tool"} /\ (t.tool_calls # <<>> \/ t.tool_call_id # NoId)

\* C10: while chat runs the canonical history is one turn (the human turn)
\* longer than when chat was called, and when chat has returned it is two
\* turns longer: the human turn, then a manager turn with the returned
\* answer, after any number of tool rounds and after a failure alike; no turn
\* of the canonical history is a tool-call turn or a tool-result turn.
HistoryGrowsByTwo ==
    /\ \A i \in 1..Len(conversation_history) :
          /\ conversation_history[i].role \in {"human", "manager"}
          /\ conversation_history[i].tool_calls = <<>>
          /\ conversation_history[i].tool_call_id = NoId
    /\ mpc # "idle" =>
          /\ Len(conversation_history) = historyBefore + 1
          /\ conversation_history[historyBefore + 1].role = "human"
    /\ Returned =>
          /\ Len(conversation_history) = historyBefore + 2
          /\ conversation_history[historyBefore + 1].role = "human"
          /\ conversation_history[historyBefore + 2].role = "manager"
          /\ conversation_history[historyBefore + 2].content = answer

\* C10 witness: the second call of chat has returned after max_rounds rounds
\* whose turns (with the report of a failed tool) are in the working copy.
HistoryGrowsWitness ==
    /\ Returned /\ historyBefore = 2 /\ rounds = max_rounds /\ ~failed
    /\ Len(conversation_history) = 4
    /\ \E i \in 1..Len(tool_messages) :
          IsToolExchange(tool_messages[i]) /\ tool_messages[i].content = "error"

\* C11: chat never lets an exception out. After the oracle raised, or
\* returned tool-call arguments that are not JSON, on any round or on the
\* final call, chat returns the error answer, and the last turn of the
\* canonical history is the manager turn with that answer.
ChatNeverRaises ==
    /\ mpc # "raised"
    /\ (Returned /\ exc # NoException) =>
          /\ failed
          /\ answer = error_msg
          /\ answer \notin Contents
          /\ conversation_history[Len(conversation_history)] =
                 ManagerTurn(answer, FALSE)

\* C11 witness: the oracle raised on the final call, after max_rounds rounds
\* of tool calls, and chat has returned the error answer.
ChatNeverRaisesWitness ==
    /\ Returned /\ exc \in OracleErrors
    /\ enabledCalls = max_rounds /\ finalCalls = 1
    /\ answer = error_msg

ToolTurnsOf(id) ==
    {i \in 1..Len(tool_messages) :
        tool_messages[i].role = "tool" /\ tool_messages[i].tool_call_id = id}

Folded == exc = NoException /\ mpc \in {"loop", "oracle", "final", "append", "idle"}

\* The invocations of every round are all executed and folded: outside the
\* execution of a round each requested id has exactly one tool turn in the
\* working copy, and only an oracle that raised or arguments that are not
\* JSON make the loop raise.
RoundsAreFolded ==
    /\ Folded => \A id \in requestedIds : Cardinality(ToolTurnsOf(id)) = 1
    /\ exc # NoException => ~allRequested
    /\ mpc # "raised"

\* C12: when send_request returned None to the tool of an invocation, the
\* result recorded against the id of that invocation has status "error"; the
\* other invocations of the round are executed all the same and the loop goes
\* on to the next oracle call without raising.
NoReplyRecordedAsError ==
    /\ RoundsAreFolded
    /\ \A i \in 1..Len(tool_results) :
          tool_results[i].tool_call_id \in noReply
              => tool_results[i].output = "error"
    /\ \A id \in noReply : \A i \in ToolTurnsOf(id) :
          tool_messages[i].content = "error"

\* C13: every response a send_request call returns (ids unique) is the one
\* create_response builds from the message of that call: correlation_id is
\* the id of the request, sender and recipient are swapped, the kind is
\* Response, requires_response is false and its id is not the id of the
\* request; and no step changes a message once it has been passed to the
\* broker.
ResponseBuiltFromRequest ==
    /\ [](\A k \in Calls :
            (Sent(k) /\ cpc[k] = "done" /\ result[k] # NoResponse) =>
               /\ result[k].correlation_id = msg[k].message_id
               /\ result[k].sender = msg[k].recipient
               /\ result[k].recipient = msg[k].sender
               /\ result[k].message_type = "response"
               /\ result[k].requires_response = FALSE
               /\ result[k].message_id # msg[k].message_id
               /\ result[k] = create_response(msg[k], k, handlerRet[k]))
    /\ [][\A k \in Calls : cpc[k] # "idle" => msg'[k] = msg[k]]_vars

\* C13 witness: a call to "rag" has returned a response, from "rag" to the
\* manager.
ResponseBuiltWitness ==
    \E k \in Calls :
        /\ Sent(k) /\ cpc[k] = "done" /\ result[k] # NoResponse
        /\ msg[k].recipient = "rag" /\ result[k].sender = "rag"
        /\ result[k].recipient = "manager"


\* Worker loops that consume the mailbox of a name.
WorkerLoops(n) == {w \in Workers : NameOf(w) = n /\ wpc[w] \notin {"none", "exit"}}

\* The handlers stored for the recipient of call k since its message was
\* dequeued, with the one in place at that time.
HandlersSince(k) ==
    {registrations[msg[k].recipient][i] :
        i \in {j \in 1..Len(registrations[msg[k].recipient]) : j >= regsAtGet[k]}}

\* A registration replaces the handler and keeps the mailbox: a dequeued
\* message gets the handler in place when it was dequeued or one registered
\* later.
ReRegistrationReplaces ==
    \A k \in Calls :
        invokedBy[k] # NoHandler => invokedBy[k] \in HandlersSince(k)

\* C14: every name has at most one worker loop on its mailbox, however the
\* register calls for it interleave; a registration keeps the mailbox and
\* its messages, and a message is handled by the handler in place when it
\* was dequeued or by one registered later.
OneWorkerPerName ==
    /\ \A n \in Names : Cardinality(WorkerLoops(n)) <= 1
    /\ ReRegistrationReplaces

ReRegistrationWitness ==
    \E k \in Calls :
        /\ Len(registrations["planner"]) = 2
        /\ regsAtGet[k] = 2
        /\ invokedBy[k] = registrations["planner"][2]
        /\ registrations["planner"][1] # registrations["planner"][2]


\* The handler has raised on the message of call k: the worker is in the
\* except block of line 149, or has left it.
HandlerRaised(k) ==
    \/ \E w \in Workers :
          wmsg[w] = k /\ wpc[w] = "failed" /\ werror[w] \in HandlerErrors
    \/ HasEvent(k, "failed") /\ handlerRet[k] = NoPayload

\* C15: when the handler raises on request k, the worker appends a Failed
\* event that carries the error text to the trace of k, stores no response
\* and does not set the Event of the waiter, so that send_request(k) returns
\* "no response" by the timeout only; the worker thread stays in its loop.
HandlerFailureIsolated ==
    \A k \in Calls :
        (cpc[k] # "idle" /\ msg[k].message_type = "request" /\ HandlerRaised(k)) =>
            /\ \A i \in 1..Len(Events(k)) :
                   Events(k)[i].status = "failed" =>
                       Events(k)[i].error \in HandlerErrors
            /\ (\A w \in Workers : wmsg[w] = k => wpc[w] # "failed")
                   => HasEvent(k, "failed")
            /\ ~HasEvent(k, "completed")
            /\ pending_responses[msg[k].message_id] = NoResponse
            /\ signalled[k] = "no"
            /\ ~event_flag[k]
            /\ (Sent(k) /\ cpc[k] = "done") =>
                   (result[k] = NoResponse /\ deadline[k] /\ HasEvent(k, "timeout"))
            /\ wpc[msg[k].recipient] \notin {"none", "exit", "error"}

\* C15 witness: the handler raised on the first request to a name, its
\* send_request has returned "no response", and the same worker has
\* completed the next request to that name.
HandlerFailureWitness ==
    \E k \in Calls, j \in Calls, n \in Names :
        /\ invoked[n] = <<k, j>>
        /\ Sent(k) /\ HasEvent(k, "failed") /\ cpc[k] = "done"
        /\ result[k] = NoResponse
        /\ HasEvent(j, "completed")


\* The tables of the broker that shutdown is to leave empty: the registry of
\* handlers, the mailboxes, and the pending-correlation table, which is the
\* response slots (_pending_responses) and the completion signals
\* (_response_events).
TablesEmpty ==
    /\ \A n \in Names : agent_handlers[n] = NoHandler
    /\ \A n \in Names : message_queues[n] = <<>>
    /\ \A i \in Ids : pending_responses[i] = NoResponse
    /\ \A i \in Ids : response_events[i] = NoMessage

\* shutdown returns: its last statement (line 251) has been executed.
ShutdownReturns == spc = "clear_pending" /\ spc' = "idle"

\* C16: when shutdown returns, the registry, the mailboxes, the response
\* slots and the completion signals are all empty, also while send_request
\* calls and handler invocations are in flight; shutdown does not raise.
ShutdownEmptiesTables == [][ShutdownReturns => TablesEmpty']_vars


\* C17: a message passed to route_message or send_request after shutdown has
\* returned is not accepted, whatever is registered later: it is not put in
\* a mailbox, no Sent event is recorded for it and no handler is invoked on
\* it. (Every call of SpecAfterShutdown is made after shutdown returned.)
NothingAcceptedAfterShutdown ==
    \A k \in Calls :
        cpc[k] # "idle" =>
            /\ \A n \in Names : \A i \in 1..Len(enqueued[n]) : enqueued[n][i] # k
            /\ ~HasEvent(k, "sent")
            /\ invokedBy[k] = NoHandler

\* The part of C17 about the handlers alone.
NoHandlerInvokedAfterShutdown ==
    \A k \in Calls : cpc[k] # "idle" => invokedBy[k] = NoHandler


\* How often x occurs in the sequence q.
Count(q, x) == Cardinality({i \in 1..Len(q) : q[i] = x})

\* Call k has executed the statement of route_message that counts it as
\* failed (line 200) or as sent (line 192).
CountedFailed(k) == cpc[k] = "route_no_handler_event" \/ HasEvent(k, "no_handler")
CountedSent(k) == cpc[k] = "route_sent_event" \/ HasEvent(k, "sent")

\* Call k has left route_message.
Routed(k) == HasEvent(k, "no_handler") \/ HasEvent(k, "sent")

\* The messages a worker has taken from a mailbox and is done with.
Delivered ==
    {k \in Calls : /\ \E n \in Names : Count(enqueued[n], k) > 0
                   /\ \A n \in Names : Count(message_queues[n], k) = 0
                   /\ \A w \in Workers : wmsg[w] # k}

\* C18: route_message(m) for a recipient without a handler appends m to the
\* history, records a NoHandler event and counts one failure; it puts m in
\* no mailbox and touches neither the sent and delivered counters nor the
\* pending table. For a registered recipient it puts m in the mailbox of the
\* recipient once, records Sent and counts one message sent.
RouteEffects ==
    /\ stats.messages_failed = Cardinality({k \in Calls : CountedFailed(k)})
    /\ stats.messages_sent = Cardinality({k \in Calls : CountedSent(k)})
    /\ stats.messages_delivered = Cardinality(Delivered)
    /\ \A k \in Calls :
           Routed(k) =>
               /\ Count(message_history, k) = 1
               /\ HasEvent(k, "no_handler") # HasEvent(k, "sent")
               /\ HasEvent(k, "no_handler") =>
                      /\ \A n \in Names : Count(enqueued[n], k) = 0
                      /\ \A n \in Names : Count(message_queues[n], k) = 0
                      /\ pending_responses[msg[k].message_id] = NoResponse
                      /\ mode[k] = "route_message"
                             => response_events[msg[k].message_id] = NoMessage
               /\ HasEvent(k, "sent") =>
                      /\ Count(enqueued[msg[k].recipient], k) = 1
                      /\ \A n \in Names \ {msg[k].recipient} :
                             Count(enqueued[n], k) = 0
                      /\ Count(message_queues[msg[k].recipient], k) <= 1

\* C18 witness: one message was routed to a name without a handler and one
\* to a registered name, whose mailbox holds it.
RouteEffectsWitness ==
    \E k \in Calls, j \in Calls :
        /\ HasEvent(k, "no_handler") /\ stats.messages_failed = 1
        /\ HasEvent(j, "sent") /\ stats.messages_sent = 1
        /\ message_queues[msg[j].recipient] = <<j>>


\* C19: the monitor loses no event. Whatever the interleaving of the
\* record_event calls, and also for an id without a trace, every event of a
\* call that has returned is in the trace of its id; no call raises.
NoEventLost ==
    \A i \in Ids :
        \A j \in 1..Len(recorded[i]) :
            /\ traces[i].present
            /\ Count(traces[i].events, recorded[i][j]) >= Count(recorded[i], recorded[i][j])

\* The same for the calls of one thread, one call after the other.
NoEventLostSequentially ==
    (\A t \in Recorders : t # 1 => tcalls[t] = 0) => NoEventLost


\* A message object exists for call k: its constructor has returned.
Constructed(k) == cpc[k] \notin {"idle", "raised"}

\* C20: the constructor fails for an empty sender, an empty recipient or a
\* missing kind, so that every message that exists, and every message that
\* route_message is given, has a sender and a recipient that are not empty,
\* and a kind.
NoEmptyAddress ==
    \A k \in Calls :
        Constructed(k) =>
            /\ msg[k].sender \notin {Omitted, ""}
            /\ msg[k].recipient \notin {Omitted, ""}
            /\ msg[k].message_type # Omitted

\* The part of C20 about what is required: a message without a sender, a
\* recipient or a kind does not exist.
RequiredFieldsPresent ==
    \A k \in Calls :
        Constructed(k) =>
            /\ msg[k].sender # Omitted
            /\ msg[k].recipient # Omitted
            /\ msg[k].message_type # Omitted


\* The turns of the working copy that carry tool calls.
CallTurns == {j \in 1..Len(tool_messages) : tool_messages[j].tool_calls # <<>>}

\* Turn j of the working copy opens a round: an assistant turn that lists
\* the k >= 1 invocations the oracle requested in that round, in request
\* order, followed by k tool turns, the i-th with the id of the i-th
\* invocation and the output obtained for that id, and by no other tool turn.
RoundAt(j) ==
    LET ids == tool_messages[j].tool_calls
        k == Len(ids)
    IN /\ tool_messages[j].role = "assistant"
       /\ k >= 1
       /\ \A i \in 1..k : ids[i] = <<ids[1][1], i>>
       /\ j + k <= Len(tool_messages)
       /\ \A i \in 1..k :
              /\ tool_messages[j + i].role = "tool"
              /\ tool_messages[j + i].tool_call_id = ids[i]
              /\ [id |-> ids[i], output |-> tool_messages[j + i].content]
                     \in obtained
       /\ j + k < Len(tool_messages) => tool_messages[j + k + 1].role # "tool"

\* C21: a dispatch round in which the oracle requests k >= 1 invocations
\* appends 1 + k turns to the working copy: the assistant turn with the k
\* invocations, then k tool turns in request order, each with the id of its
\* invocation and the result obtained for that invocation.
RoundAppendsTurns ==
    /\ \A j \in CallTurns : RoundAt(j)
    /\ \A j \in 1..Len(tool_messages) :
           tool_messages[j].role = "tool" =>
               \E c \in CallTurns : c < j /\ j <= c + Len(tool_messages[c].tool_calls)
    /\ Folded =>
           \A id \in requestedIds :
               \E c \in CallTurns : \E i \in 1..Len(tool_messages[c].tool_calls) :
                   tool_messages[c].tool_calls[i] = id

\* C21 witness: a round of two invocations whose results differ has been
\* appended.
RoundAppendsWitness ==
    \E j \in CallTurns :
        /\ Len(tool_messages[j].tool_calls) = 2
        /\ j + 2 <= Len(tool_messages)
        /\ tool_messages[j + 1].content # tool_messages[j + 2].content


\* No thread is inside route_message.
AllRouteCallsReturned == \A k \in Calls : cpc[k] \in {"idle", "done"}

Precedes(k, a, b) ==
    \A i \in 1..Len(Events(k)) : \A j \in 1..Len(Events(k)) :
        (Events(k)[i].status = a /\ Events(k)[j].status = b) => i < j

\* C23: in the trace of a message routed to a registered recipient Sent
\* comes before Received, Received before Processing, and Processing before
\* Completed or Failed, however the routing thread and the worker
\* interleave; once the handler has finished the current status is not Sent.
LifecycleMonotone ==
    \A k \in Calls :
        cpc[k] # "idle" =>
            /\ Precedes(k, "sent", "received")
            /\ Precedes(k, "received", "processing")
            /\ Precedes(k, "processing", "completed")
            /\ Precedes(k, "processing", "failed")
            /\ (HasEvent(k, "completed") \/ HasEvent(k, "failed"))
                   => get_status(traces[msg[k].message_id]) # "sent"

\* The part of C23 that is the worker's own order.
WorkerLifecycleMonotone ==
    \A k \in Calls :
        cpc[k] # "idle" =>
            /\ Precedes(k, "received", "processing")
            /\ Precedes(k, "processing", "completed")
            /\ Precedes(k, "processing", "failed")

\* C24: for every canonical history (any sequence of human and manager
\* turns), the working transcript handed to the oracle on the first round
\* starts with the system turn, has no two adjacent assistant turns and ends
\* with the new user turn; and a step that changes the working transcript
\* leaves the canonical history as it is.
FirstRound == mpc = "oracle" /\ rounds = 1

NoAdjacentAssistants(messages) ==
    \A i \in 1..(Len(messages) - 1) :
        ~(messages[i].role = "assistant" /\ messages[i + 1].role = "assistant")

EndsWithNewUserTurn(messages, h) ==
    /\ Len(messages) >= 2
    /\ messages[Len(messages)].role = "user"
    /\ h # <<>>
    /\ messages[Len(messages)].content = h[Len(h)].content

TranscriptShape ==
    FirstRound =>
        /\ tool_messages # <<>>
        /\ tool_messages[1] = Turn("system", SYSTEM_PROMPT)
        /\ \A i \in 2..Len(tool_messages) : tool_messages[i].role # "system"
        /\ Len(tool_messages) <= history_window + 1
        /\ NoAdjacentAssistants(tool_messages)
        /\ EndsWithNewUserTurn(tool_messages, conversation_history)
        /\ conversation_history[Len(conversation_history)].role = "human"
        /\ conversation_history[Len(conversation_history)].content \in HumanMessages

TranscriptIsCopy ==
    (mpc \notin {"idle", "build"} /\ tool_messages' # tool_messages)
        => conversation_history' = conversation_history

FirstTranscriptWellFormed == []TranscriptShape /\ [][TranscriptIsCopy]_vars

\* The first round of a chat on a history longer than the window, with two
\* manager turns in a row inside the window and a manager turn at its start:
\* the transcript is shorter than the window.
TranscriptWitness ==
    /\ FirstRound
    /\ Len(conversation_history) > history_window
    /\ \E i \in (Len(conversation_history) - history_window + 1)
                ..(Len(conversation_history) - 1) :
           /\ conversation_history[i].role = "manager"
           /\ conversation_history[i + 1].role = "manager"
    /\ Len(tool_messages) < history_window
    /\ \E i \in 2..Len(tool_messages) : tool_messages[i].role = "assistant"

\* C25: the broker is created and initialised once per process: every
\* construction returns the same instance, and no step of a construction
\* changes the registry, the mailboxes, the pending table, the counters, the
\* history or the worker table.
SameInstance == instance <= 1

ConstructionStep == kpc' # kpc

ConstructionKeepsTables ==
    ConstructionStep =>
        UNCHANGED <<agent_handlers, message_queues, pending_responses, stats,
                    message_history, worker_threads>>

InitialisedOnce == []SameInstance /\ [][ConstructionKeepsTables]_vars

\* C26: in every reachable state the delivered counter is at most the sent
\* counter.
DeliveredAtMostSent == stats.messages_delivered <= stats.messages_sent

\* What holds of the two counters: the order, in the states where no routing
\* thread stands between its put (line 191) and its count (line 192).
DeliveredAtMostSentAtRest ==
    (\A k \in Calls : cpc[k] # "route_sent_stat") => DeliveredAtMostSent

\* C27: the responses_matched counter equals the number of send_request
\* calls that have returned a response (not None).
ReturnedResponse(k) == cpc[k] = "done" /\ result[k] # NoResponse

MatchedCountsResponses ==
    stats.responses_matched = Cardinality({k \in Calls : ReturnedResponse(k)})

\* C28: a Failed event is in the trace of a message only if the handler
\* raised for it: when the handler returned, the trace has no Failed event.
HandlerReturned(k) == handlerRet[k] # NoPayload

FailedOnlyIfRaised ==
    \A k \in Calls : HandlerReturned(k) => ~HasEvent(k, "failed")

\* C29: once send_request has returned "no response" for request k, the
\* current status of k's trace is a failure status in every later state, so
\* get_recent_failures with a large enough limit reports k.
ReturnedNoResponse(k) ==
    cpc[k] = "done" /\ mode[k] = "send_request" /\ result[k] = NoResponse

FailureStays ==
    \A k \in Calls :
        ReturnedNoResponse(k) =>
            msg[k].message_id \in get_recent_failures(traces)

\* What holds: the call that returns "no response" leaves the failure status
\* behind at the moment it returns.
ReturnsNoResponse ==
    \A k \in Calls :
        (cpc[k] = "timeout_event" /\ cpc'[k] = "done") =>
            msg[k].message_id \in get_recent_failures(traces')

FailureWhenReturned == [][ReturnsNoResponse]_vars

\* C30: a handler running on the worker of "planner" may call send_request
\* to "rag" without deadlock. While the nested call is in flight the outer
\* request is still inside the handler; a nested request put in rag's
\* mailbox is handled by rag's worker; when rag's worker signals before the
\* nested deadline, the nested call returns rag's response to it; every call
\* returns and planner's worker leaves the outer request.
NestedInFlight == cpc[2] \notin {"idle", "done", "raised"}

NestedEnqueued == \E i \in 1..Len(enqueued["rag"]) : enqueued["rag"][i] = 2

NestedInsideOuter ==
    NestedInFlight =>
        /\ wpc["planner"] = "handler" /\ wmsg["planner"] = 1
        /\ ~HasEvent(1, "completed")
        /\ cpc[1] # "idle"

NestedGetsResponse ==
    /\ (Sent(2) /\ signalled[2] = "in_time") =>
           /\ ~deadline[2]
           /\ cpc[2] # "raised"
           /\ cpc[2] = "done" => result[2] # NoResponse
    /\ (cpc[2] = "done" /\ result[2] # NoResponse) =>
           /\ result[2].sender = "rag"
           /\ result[2].recipient = "planner"
           /\ result[2].correlation_id = msg[2].message_id
           /\ result[2].payload = handlerRet[2]

NestedWithoutDeadlock ==
    /\ []NestedInsideOuter
    /\ []NestedGetsResponse
    /\ NestedEnqueued ~> (HasEvent(2, "completed") \/ HasEvent(2, "failed"))
    /\ \A k \in Calls : (cpc[k] # "idle") ~> (cpc[k] = "done")
    /\ (wmsg["planner"] = 1) ~> (wmsg["planner"] # 1)

\* C30 witness: the handler of "planner" has received rag's response to its
\* nested request while the thread of the "rag" agent that sent the outer
\* request is still blocked waiting on "planner".
NestedWitness ==
    /\ cpc[2] = "done" /\ result[2] # NoResponse
    /\ result[2].payload = simple_handler(msg[2])
    /\ msg[1].sender = "rag" /\ cpc[1] = "wait"
    /\ wpc["planner"] = "handler" /\ wmsg["planner"] = 1
====
